---- MODULE Spec2Model ----
(***************************************************************************)
(* Strata-Dev: the workspace sandbox (security.ts), the workspace file     *)
(* service (workspaceService.ts), the change-set / patch engine            *)
(* (patchService.ts) and the change_sets table of the durable store        *)
(* (databaseService.ts), as a state machine.                               *)
(*                                                                         *)
(* A path string is a sequence of tokens.  The token "/" is path.sep; any  *)
(* other token stands for one or more characters of a file name, so that   *)
(* <<"/","w","/","r">> is "/w/r" and <<"/","w","/","r","-x">> is          *)
(* "/w/r-x".  A segment is the run of tokens between two separators; the   *)
(* segments <<".">> and <<"..">> are the dot segments of POSIX.            *)
(***************************************************************************)
EXTENDS Integers, Sequences, FiniteSets

\* The one element of a singleton set
The(S) == CHOOSE x \in S : TRUE

(***************************************************************************)
(* node:path (POSIX)                                                       *)
(***************************************************************************)
sep == "/"

RECURSIVE SplitFrom(_, _, _, _)
SplitFrom(s, i, cur, acc) ==
  IF i > Len(s)
    THEN IF cur = <<>> THEN acc ELSE Append(acc, cur)
    ELSE IF s[i] = sep
      THEN SplitFrom(s, i + 1, <<>>, IF cur = <<>> THEN acc ELSE Append(acc, cur))
      ELSE SplitFrom(s, i + 1, Append(cur, s[i]), acc)

\* The non-empty segments of a path string.
Segments(s) == SplitFrom(s, 1, <<>>, <<>>)

RECURSIVE CollapseFrom(_, _, _)
CollapseFrom(segs, i, acc) ==
  IF i > Len(segs) THEN acc
  ELSE IF segs[i] = <<".">> THEN CollapseFrom(segs, i + 1, acc)
  ELSE IF segs[i] = <<"..">>
    THEN CollapseFrom(segs, i + 1,
                      IF acc = <<>> THEN acc ELSE SubSeq(acc, 1, Len(acc) - 1))
    ELSE CollapseFrom(segs, i + 1, Append(acc, segs[i]))

\* Dot segments resolved against an absolute prefix: ".." above "/" stays at "/".
Collapse(segs) == CollapseFrom(segs, 1, <<>>)

RECURSIVE RenderFrom(_, _)
RenderFrom(segs, i) ==
  IF i > Len(segs) THEN <<>> ELSE <<sep>> \o segs[i] \o RenderFrom(segs, i + 1)

\* The absolute path string of a list of segments.
Render(segs) == IF segs = <<>> THEN <<sep>> ELSE RenderFrom(segs, 1)

IsAbsolute(s) == Len(s) > 0 /\ s[1] = sep

StartsWith(s, prefix) ==
  /\ Len(prefix) <= Len(s)
  /\ SubSeq(s, 1, Len(prefix)) = prefix

\* path.resolve(value) of an absolute value
normalize(value) == Render(Collapse(Segments(value)))

\* path.resolve(root, relativePath): an absolute second argument replaces the first
pathResolve(root, relativePath) ==
  IF IsAbsolute(relativePath)
    THEN normalize(relativePath)
    ELSE normalize(root \o <<sep>> \o relativePath)

\* path.join(a, b) with a absolute: the arguments are concatenated, then normalised
pathJoin(a, b) == normalize(a \o <<sep>> \o b)

\* path.dirname(p) of an absolute normalised p
pathDirname(p) ==
  LET segs == Segments(p)
  IN  IF segs = <<>> THEN <<sep>> ELSE Render(SubSeq(segs, 1, Len(segs) - 1))

(***************************************************************************)
(* security.ts                                                             *)
(***************************************************************************)
\* An isWithinRoot that compares prefixes without the separator.
isWithinRootNoSep(rootPath, candidatePath) ==
  LET root == normalize(rootPath)
      candidate == normalize(candidatePath)
  IN  candidate = root \/ StartsWith(candidate, root)

\* isWithinRoot(rootPath, candidatePath)
isWithinRoot(rootPath, candidatePath) ==
  LET root == normalize(rootPath)
      candidate == normalize(candidatePath)
  IN  candidate = root \/ StartsWith(candidate, root \o <<sep>>)

(***************************************************************************)
(* node:fs.  A file system is a function from the absolute path strings of *)
(* its entries to nodes; "/" is a directory and has no entry.  An entry's  *)
(* key is its physical location: no proper prefix of it is a symlink.      *)
(***************************************************************************)
FileNode(c) == [kind |-> "file", content |-> c, target |-> <<>>]
DirNode == [kind |-> "dir", content |-> "", target |-> <<>>]
LinkNode(t) == [kind |-> "link", content |-> "", target |-> t]

Put(fs, p, node) == [x \in DOMAIN fs \cup {p} |-> IF x = p THEN node ELSE fs[x]]
Drop(fs, p) == [x \in DOMAIN fs \ {p} |-> fs[x]]

KindAt(fs, segs) ==
  IF segs = <<>> THEN "dir"
  ELSE IF Render(segs) \in DOMAIN fs THEN fs[Render(segs)].kind ELSE "none"

\* How many symlinks one lookup follows before it fails with ELOOP.
SymlinkFuel == 2

RECURSIVE WalkFrom(_, _, _, _, _)
WalkFrom(fs, cur, rest, followLast, fuel) ==
  IF rest = <<>> THEN [st |-> "ok", at |-> cur, kind |-> KindAt(fs, cur)]
  ELSE LET nxt == Append(cur, Head(rest))
           k == KindAt(fs, nxt)
           last == Len(rest) = 1
       IN  CASE k = "none" ->
                  IF last THEN [st |-> "ok", at |-> nxt, kind |-> "none"]
                  ELSE [st |-> "ENOENT", at |-> nxt, kind |-> "none"]
             [] k = "file" ->
                  IF last THEN [st |-> "ok", at |-> nxt, kind |-> "file"]
                  ELSE [st |-> "ENOTDIR", at |-> nxt, kind |-> "file"]
             [] k = "dir" -> WalkFrom(fs, nxt, Tail(rest), followLast, fuel)
             [] OTHER ->
                  IF last /\ ~followLast
                    THEN [st |-> "ok", at |-> nxt, kind |-> "link"]
                  ELSE IF fuel = 0
                    THEN [st |-> "ELOOP", at |-> nxt, kind |-> "link"]
                  ELSE WalkFrom(fs, <<>>,
                                Collapse(Segments(fs[Render(nxt)].target)) \o Tail(rest),
                                followLast, fuel - 1)

\* The physical location a path string names: st is "ok" when every directory on
\* the way exists; kind is "none" when the last segment names nothing.
Walk(fs, p, followLast) == WalkFrom(fs, <<>>, Segments(p), followLast, SymlinkFuel)

\* fs.realpath(p): rejects unless p names an existing entry
fsRealpath(fs, p) ==
  LET w == Walk(fs, p, TRUE)
  IN  IF w.st = "ok" /\ w.kind # "none"
        THEN [ok |-> TRUE, path |-> Render(w.at)]
        ELSE [ok |-> FALSE, path |-> <<>>]

\* fs.readFile(p, 'utf-8')
fsReadFile(fs, p) ==
  LET w == Walk(fs, p, TRUE)
  IN  IF w.st = "ok" /\ w.kind = "file"
        THEN [ok |-> TRUE, content |-> fs[Render(w.at)].content]
        ELSE [ok |-> FALSE, content |-> ""]

\* fs.stat(p).isDirectory(); ok is FALSE when stat rejects
fsStatIsDirectory(fs, p) ==
  LET w == Walk(fs, p, TRUE)
  IN  [ok |-> w.st = "ok" /\ w.kind # "none", isDir |-> w.st = "ok" /\ w.kind = "dir"]

RECURSIVE MkdirFrom(_, _, _)
MkdirFrom(fs, segs, i) ==
  IF i > Len(segs) THEN [ok |-> TRUE, fs |-> fs]
  ELSE LET w == Walk(fs, Render(SubSeq(segs, 1, i)), TRUE)
       IN  IF w.st # "ok" \/ w.kind = "file" THEN [ok |-> FALSE, fs |-> fs]
           ELSE IF w.kind = "none"
             THEN MkdirFrom(Put(fs, Render(w.at), DirNode), segs, i + 1)
             ELSE MkdirFrom(fs, segs, i + 1)

\* fs.mkdir(p, { recursive: true })
fsMkdirRecursive(fs, p) == MkdirFrom(fs, Segments(p), 1)

\* fs.writeFile(p, content, 'utf-8'): creates or truncates, following symlinks
fsWriteFile(fs, p, content) ==
  LET w == Walk(fs, p, TRUE)
  IN  IF w.st = "ok" /\ w.kind \in {"none", "file"}
        THEN [ok |-> TRUE, fs |-> Put(fs, Render(w.at), FileNode(content))]
        ELSE [ok |-> FALSE, fs |-> fs]

\* fs.rename(from, to) of a file: replaces the entry at `to` (a symlink there is
\* replaced, not followed); fails when `to` is a directory
fsRename(fs, from, to) ==
  LET a == Walk(fs, from, FALSE)
      b == Walk(fs, to, FALSE)
  IN  IF a.st = "ok" /\ a.kind = "file" /\ b.st = "ok" /\ b.kind # "dir"
        THEN [ok |-> TRUE,
              fs |-> Put(Drop(fs, Render(a.at)), Render(b.at), fs[Render(a.at)])]
        ELSE [ok |-> FALSE, fs |-> fs]

(***************************************************************************)
(* errors.ts, hash.ts                                                      *)
(***************************************************************************)
\* ok(value)
Ok(value) == [ok |-> TRUE, code |-> "", cause |-> "", details |-> <<>>, value |-> value]

\* err(code, message, details): cause is the code of the AppError passed as
\* details (toAppError keeps the code of a thrown object that has one), details
\* the remaining payload.
Err(code, cause, details) ==
  [ok |-> FALSE, code |-> code, cause |-> cause, details |-> details, value |-> <<>>]

\* sha256(content): the digest is modelled as collision-free
sha256(content) == <<"sha256", content>>

\* An expectedSha256 that is undefined or the empty string: both are falsy.
NoSha == <<>>

(***************************************************************************)
(* security.ts: resolveWorkspaceRoot, resolveInsideWorkspace               *)
(***************************************************************************)
\* resolveWorkspaceRoot(workspacePath): ok is FALSE when it throws
resolveWorkspaceRoot(fs, workspacePath) ==
  LET real == fsRealpath(fs, workspacePath)
  IN  IF ~real.ok THEN [ok |-> FALSE, path |-> <<>>]
      ELSE IF ~fsStatIsDirectory(fs, real.path).isDir THEN [ok |-> FALSE, path |-> <<>>]
      ELSE [ok |-> TRUE, path |-> real.path]

\* What resolveInsideWorkspace throws: pathError(candidatePath, rootPath), or the
\* error of fs.realpath.
\* A pathError without the code and without the root.
PathErrorBare(candidatePath, rootPath) ==
  [ok |-> FALSE, path |-> <<>>, cause |-> "FS_ERROR", details |-> <<candidatePath>>]

PathError(candidatePath, rootPath) ==
  [ok |-> FALSE, path |-> <<>>, cause |-> "PATH_OUTSIDE_WORKSPACE",
   details |-> <<candidatePath, rootPath>>]
FsError == [ok |-> FALSE, path |-> <<>>, cause |-> "FS_ERROR", details |-> <<>>]
Resolved(p) == [ok |-> TRUE, path |-> p, cause |-> "", details |-> <<>>]

\* A resolveInsideWorkspace that checks the joined path only.
resolveJoinedOnly(fs, rootPath, relativePath, mustExist) ==
  LET root == normalize(rootPath)
      joined == normalize(pathResolve(root, relativePath))
  IN  IF ~isWithinRoot(root, joined) THEN PathError(joined, root)
      ELSE IF ~fsRealpath(fs, joined).ok /\ mustExist THEN FsError
      ELSE Resolved(joined)

\* resolveInsideWorkspace(rootPath, relativePath, { mustExist })
resolveInsideWorkspace(fs, rootPath, relativePath, mustExist) ==
  LET root == normalize(rootPath)
      joined == normalize(pathResolve(root, relativePath))
  IN  IF ~isWithinRoot(root, joined) THEN PathError(joined, root)
      ELSE IF mustExist
        THEN LET real == fsRealpath(fs, joined)
             IN  IF ~real.ok THEN FsError
                 ELSE IF ~isWithinRoot(root, real.path) THEN PathError(real.path, root)
                 ELSE Resolved(real.path)
        ELSE LET parent == pathDirname(joined)
                 parentReal == fsRealpath(fs, parent)
             IN  IF ~parentReal.ok THEN FsError
                 ELSE IF ~isWithinRoot(root, parentReal.path)
                   THEN PathError(parentReal.path, root)
                 ELSE Resolved(joined)

(***************************************************************************)
(* workspaceService.ts: WorkspaceService                                   *)
(***************************************************************************)
\* workspace = null
NoWorkspace == [open |-> FALSE, rootPath |-> <<>>]
WorkspaceMeta(rootPath) == [open |-> TRUE, rootPath |-> rootPath]

\* Date.now().toString() as one token of a path string
TsToken(now) == <<"t0", "t1", "t2", "t3", "t4", "t5", "t6", "t7", "t8", "t9">>[now + 1]

BackupDirName == ".strata-backups"

\* An openWorkspace that keeps the root it has once a workspace is open
openWorkspaceOnce(fs, ws, workspacePath) ==
  LET root == resolveWorkspaceRoot(fs, workspacePath)
  IN  IF root.ok
        THEN [workspace |-> IF ws.open THEN ws ELSE WorkspaceMeta(root.path),
              res |-> Ok(root.path)]
        ELSE [workspace |-> ws, res |-> Err("INVALID_INPUT", "FS_ERROR", <<>>)]

\* openWorkspace(workspacePath): the new value of this.workspace and the result
openWorkspace(fs, ws, workspacePath) ==
  LET root == resolveWorkspaceRoot(fs, workspacePath)
  IN  IF root.ok
        THEN [workspace |-> WorkspaceMeta(root.path), res |-> Ok(root.path)]
        ELSE [workspace |-> ws, res |-> Err("INVALID_INPUT", "FS_ERROR", <<>>)]

\* readFile(relativePath)
readFile(fs, ws, relativePath) ==
  IF ~ws.open THEN Err("FILE_NOT_FOUND", "WORKSPACE_NOT_OPEN", <<>>)
  ELSE LET abs == resolveInsideWorkspace(fs, ws.rootPath, relativePath, TRUE)
       IN  IF ~abs.ok THEN Err("FILE_NOT_FOUND", abs.cause, abs.details)
           ELSE LET got == fsReadFile(fs, abs.path)
                IN  IF ~got.ok THEN Err("FILE_NOT_FOUND", "FS_ERROR", <<>>)
                    ELSE Ok([content |-> got.content, sha256 |-> sha256(got.content)])

(* readFilesForContext(relativePaths) is an async function that awaits one     *)
(* readFile per path.  A frame holds its locals: the paths, the position of    *)
(* the loop and the array out.                                                 *)
rfcCall(relativePaths) ==
  [busy |-> TRUE, relativePaths |-> relativePaths, i |-> 1, out |-> <<>>]

\* A turn of the loop that gives up the batch at the first read that fails
rfcStepFailFast(fs, ws, c) ==
  LET relativePath == c.relativePaths[c.i]
      fileResult == readFile(fs, ws, relativePath)
  IN  IF ~fileResult.ok THEN [c EXCEPT !.i = Len(c.relativePaths) + 1, !.out = <<>>]
      ELSE [c EXCEPT !.i = c.i + 1,
                     !.out = Append(c.out, [path |-> relativePath,
                                            content |-> fileResult.value.content,
                                            sha256 |-> fileResult.value.sha256])]

\* One turn of the loop: the awaited readFile and the push or the continue
rfcStep(fs, ws, c) ==
  LET relativePath == c.relativePaths[c.i]
      fileResult == readFile(fs, ws, relativePath)
  IN  IF ~fileResult.ok THEN [c EXCEPT !.i = c.i + 1]
      ELSE [c EXCEPT !.i = c.i + 1,
                     !.out = Append(c.out, [path |-> relativePath,
                                            content |-> fileResult.value.content,
                                            sha256 |-> fileResult.value.sha256])]

\* IGNORED_DIRS
IGNORED_DIRS == {<<".git">>, <<"node_modules">>, <<"dist">>, <<"dist-electron">>,
                 <<"release">>}

\* The tokens of the file names of the model, in collation order
Alphabet ==
  <<"-", "-x", ".git", ".strata-backups", ".strata-tmp-", "a", "b", "c", "d", "dist",
    "dist-electron", "e", "f", "j", "k", "l", "m", "n", "node_modules", "o", "r", "r1",
    "release", "s", "t0", "t1", "t2", "t3", "w", "x">>
Rank(token) == CHOOSE i \in 1..Len(Alphabet) : Alphabet[i] = token

RECURSIVE NameLess(_, _)
\* a.localeCompare(b) < 0, for names of tokens
NameLess(a, b) ==
  IF a = <<>> THEN b # <<>>
  ELSE IF b = <<>> THEN FALSE
  ELSE IF Head(a) = Head(b) THEN NameLess(Tail(a), Tail(b))
  ELSE Rank(Head(a)) < Rank(Head(b))

\* The comparator of walk: directories first, then by name
NodeBefore(x, y) ==
  IF x.type # y.type THEN x.type = "directory" ELSE NameLess(x.name, y.name)

RECURSIVE SortNodes(_)
\* Array.prototype.sort of a set of nodes with distinct names
SortNodes(S) ==
  IF S = {} THEN <<>>
  ELSE LET first == CHOOSE x \in S : \A y \in S \ {x} : NodeBefore(x, y)
       IN  <<first>> \o SortNodes(S \ {first})

\* fs.readdir(absDirectoryPath): the entries of the directory
fsReaddir(fs, absDirectoryPath) ==
  {p \in DOMAIN fs : Segments(p) # <<>> /\ pathDirname(p) = absDirectoryPath}

\* entry.name
EntryName(p) == Segments(p)[Len(Segments(p))]

\* path.relative(rootPath, absPath) || '.', for an absPath at or below rootPath
pathRelative(rootPath, absPath) ==
  IF absPath = rootPath THEN <<".">>
  ELSE SubSeq(absPath, Len(rootPath) + 2, Len(absPath))

\* The symlink test of walk: the entry is a symlink whose real path is outside
\* the root, or cannot be resolved
linkEscapes(fs, rootPath, absPath) ==
  /\ fs[absPath].kind = "link"
  /\ LET resolved == fsRealpath(fs, absPath)
     IN  ~resolved.ok \/ ~isWithinRoot(rootPath, resolved.path)

RECURSIVE walk(_, _, _, _)
\* walk(absDirectoryPath, rootPath, depth): a FileNode is a record with path,
\* name, type, expanded (whether it has children) and children; size and mtimeMs
\* are left out
walk(fs, absDirectoryPath, rootPath, depth) ==
  LET kept == {p \in fsReaddir(fs, absDirectoryPath) :
                 /\ EntryName(p) \notin IGNORED_DIRS
                 /\ ~linkEscapes(fs, rootPath, p)
                 /\ fs[p].kind \in {"dir", "file"}}
      NodeOf(p) ==
        IF fs[p].kind = "dir"
          THEN [path |-> pathRelative(rootPath, p), name |-> EntryName(p),
                type |-> "directory", expanded |-> depth > 1,
                children |-> IF depth > 1 THEN walk(fs, p, rootPath, depth - 1) ELSE <<>>]
          ELSE [path |-> pathRelative(rootPath, p), name |-> EntryName(p),
                type |-> "file", expanded |-> FALSE, children |-> <<>>]
  IN  SortNodes({NodeOf(p) : p \in kept})

\* A listTree that also expands the directories reached with remaining depth 1
listTreeOneDeeper(fs, ws, relativePath, depth) ==
  IF ~ws.open THEN Err("INTERNAL_ERROR", "WORKSPACE_NOT_OPEN", <<>>)
  ELSE LET target == resolveInsideWorkspace(fs, ws.rootPath, relativePath, TRUE)
       IN  IF ~target.ok THEN Err("INTERNAL_ERROR", target.cause, target.details)
           ELSE IF ~fsStatIsDirectory(fs, target.path).isDir
             THEN Err("INVALID_INPUT", "", <<relativePath>>)
           ELSE Ok(walk(fs, target.path, ws.rootPath, depth + 1))

\* listTree(relativePath, depth)
listTree(fs, ws, relativePath, depth) ==
  IF ~ws.open THEN Err("INTERNAL_ERROR", "WORKSPACE_NOT_OPEN", <<>>)
  ELSE LET target == resolveInsideWorkspace(fs, ws.rootPath, relativePath, TRUE)
       IN  IF ~target.ok THEN Err("INTERNAL_ERROR", target.cause, target.details)
           ELSE IF ~fsStatIsDirectory(fs, target.path).ok
             THEN Err("INTERNAL_ERROR", "FS_ERROR", <<>>)
           ELSE IF ~fsStatIsDirectory(fs, target.path).isDir
             THEN Err("INVALID_INPUT", "", <<relativePath>>)
           ELSE Ok(walk(fs, target.path, ws.rootPath, depth))

(* writeFile(relativePath, content, expectedSha256) is an async function: a    *)
(* frame holds its locals between two awaits, and each step below is one       *)
(* awaited fs call together with the synchronous code that follows it.         *)
\* A call whose requireRoot falls back to a fixed directory when no workspace
\* is open
wfCallDefaultRoot(ws, relativePath, content, expectedSha256) ==
  [pc |-> "resolve",
   relativePath |-> relativePath, content |-> content,
   expectedSha256 |-> expectedSha256,
   rootPath |-> IF ws.open THEN ws.rootPath ELSE <<sep, "w", sep, "r">>,
   absPath |-> <<>>,
   existingContent |-> "", hadExistingFile |-> FALSE,
   backupPath |-> <<>>, tmpPath |-> <<>>,
   res |-> Ok(<<>>)]

\* The frame at the call: rootPath = this.requireRoot()
wfCall(ws, relativePath, content, expectedSha256) ==
  [pc |-> IF ws.open THEN "resolve" ELSE "done",
   relativePath |-> relativePath, content |-> content,
   expectedSha256 |-> expectedSha256,
   rootPath |-> ws.rootPath, absPath |-> <<>>,
   existingContent |-> "", hadExistingFile |-> FALSE,
   backupPath |-> <<>>, tmpPath |-> <<>>,
   res |-> IF ws.open THEN Ok(<<>>)
           ELSE Err("INTERNAL_ERROR", "WORKSPACE_NOT_OPEN", <<>>)]

\* The catch clause of writeFile
wfThrow(w, cause, details) ==
  [w EXCEPT !.pc = "done", !.res = Err("INTERNAL_ERROR", cause, details)]

\* absPath = await resolveInsideWorkspace(rootPath, relativePath, { mustExist: false })
wfResolve(fs, w) ==
  LET abs == resolveInsideWorkspace(fs, w.rootPath, w.relativePath, FALSE)
  IN  [fs |-> fs,
       w |-> IF abs.ok THEN [w EXCEPT !.pc = "read", !.absPath = abs.path]
             ELSE wfThrow(w, abs.cause, abs.details)]

\* A writeFile without the guard: every expectedSha256 is let through.
wfPreconditionSkipped(expectedSha256, hadExistingFile, existingContent) == TRUE

\* The precondition of writeFile: expectedSha256 && hadExistingFile => equal digests
wfPreconditionHolds(expectedSha256, hadExistingFile, existingContent) ==
  ~(expectedSha256 # NoSha /\ hadExistingFile) \/ sha256(existingContent) = expectedSha256

\* existingContent = await fs.readFile(absPath), then the precondition
wfRead(fs, w) ==
  LET got == fsReadFile(fs, w.absPath)
      w1 == [w EXCEPT !.existingContent = got.content, !.hadExistingFile = got.ok]
  IN  [fs |-> fs,
       w |-> IF wfPreconditionHolds(w.expectedSha256, got.ok, got.content)
               THEN [w1 EXCEPT !.pc = "mkdir"]
               ELSE [w1 EXCEPT !.pc = "done",
                               !.res = Err("HASH_MISMATCH", "",
                                           <<w.relativePath, w.expectedSha256,
                                             sha256(got.content)>>)]]

\* backupPath = path.join(path.join(rootPath, '.strata-backups', Date.now()), relativePath)
wfBackupPath(rootPath, now, relativePath) ==
  pathJoin(pathJoin(pathJoin(rootPath, <<BackupDirName>>), <<TsToken(now)>>), relativePath)

\* A writeFile that writes the content in place, at the target itself.
wfTmpPathIsTarget(absPath, now, rnd) == absPath

\* tmpPath = `${absPath}.strata-tmp-${Date.now()}-${random}`
wfTmpPath(absPath, now, rnd) == absPath \o <<".strata-tmp-", TsToken(now), "-", rnd>>

\* await fs.mkdir(path.dirname(absPath), { recursive: true })
wfMkdir(fs, now, rnd, w) ==
  LET made == fsMkdirRecursive(fs, pathDirname(w.absPath))
  IN  IF ~made.ok THEN [fs |-> fs, w |-> wfThrow(w, "FS_ERROR", <<>>)]
      ELSE IF w.hadExistingFile
        THEN [fs |-> made.fs,
              w |-> [w EXCEPT !.pc = "backupMkdir",
                              !.backupPath = wfBackupPath(w.rootPath, now, w.relativePath)]]
        ELSE [fs |-> made.fs,
              w |-> [w EXCEPT !.pc = "tmpWrite", !.tmpPath = wfTmpPath(w.absPath, now, rnd)]]

\* await fs.mkdir(path.dirname(backupPath), { recursive: true })
wfBackupMkdir(fs, w) ==
  LET made == fsMkdirRecursive(fs, pathDirname(w.backupPath))
  IN  IF ~made.ok THEN [fs |-> fs, w |-> wfThrow(w, "FS_ERROR", <<>>)]
      ELSE [fs |-> made.fs, w |-> [w EXCEPT !.pc = "backupWrite"]]

\* await fs.writeFile(backupPath, existingContent, 'utf-8')
wfBackupWrite(fs, now, rnd, w) ==
  LET wrote == fsWriteFile(fs, w.backupPath, w.existingContent)
  IN  IF ~wrote.ok THEN [fs |-> fs, w |-> wfThrow(w, "FS_ERROR", <<>>)]
      ELSE [fs |-> wrote.fs,
            w |-> [w EXCEPT !.pc = "tmpWrite", !.tmpPath = wfTmpPath(w.absPath, now, rnd)]]

\* await fs.writeFile(tmpPath, content, 'utf-8')
wfTmpWrite(fs, w) ==
  LET wrote == fsWriteFile(fs, w.tmpPath, w.content)
  IN  IF ~wrote.ok THEN [fs |-> fs, w |-> wfThrow(w, "FS_ERROR", <<>>)]
      ELSE [fs |-> wrote.fs, w |-> [w EXCEPT !.pc = "rename"]]

\* await fs.rename(tmpPath, absPath); return ok(undefined)
wfRename(fs, w) ==
  LET moved == fsRename(fs, w.tmpPath, w.absPath)
  IN  IF ~moved.ok THEN [fs |-> fs, w |-> wfThrow(w, "FS_ERROR", <<>>)]
      ELSE [fs |-> moved.fs, w |-> [w EXCEPT !.pc = "done"]]

\* One step of a writeFile frame that is not done.
wfStep(fs, now, rnd, w) ==
  CASE w.pc = "resolve" -> wfResolve(fs, w)
    [] w.pc = "read" -> wfRead(fs, w)
    [] w.pc = "mkdir" -> wfMkdir(fs, now, rnd, w)
    [] w.pc = "backupMkdir" -> wfBackupMkdir(fs, w)
    [] w.pc = "backupWrite" -> wfBackupWrite(fs, now, rnd, w)
    [] w.pc = "tmpWrite" -> wfTmpWrite(fs, w)
    [] OTHER -> wfRename(fs, w)

RECURSIVE wfRun(_, _, _, _)
\* A writeFile frame run to its end with nothing interleaved.
wfRun(fs, now, rnd, w) ==
  IF w.pc = "done" THEN [fs |-> fs, w |-> w]
  ELSE The({wfRun(s.fs, now, rnd, s.w) : s \in {wfStep(fs, now, rnd, w)}})

\* writeFile(relativePath, content, expectedSha256) as one uninterrupted call
writeFile(fs, ws, now, rnd, relativePath, content, expectedSha256) ==
  The({[fs |-> r.fs, res |-> r.w.res, w |-> r.w] :
         r \in {wfRun(fs, now, rnd, wfCall(ws, relativePath, content, expectedSha256))}})

(***************************************************************************)
(* databaseService.ts: the change_sets table.  A table is a function from  *)
(* the ids of its rows to rows; the payload column holds the serialised    *)
(* change set, a copy that shares nothing with the object in memory.       *)
(***************************************************************************)
\* saveChangeSet(changeSet): INSERT OR REPLACE
saveChangeSet(db, changeSet) ==
  [x \in DOMAIN db \cup {changeSet.id} |->
     IF x = changeSet.id
       THEN [sessionId |-> changeSet.sessionId, payload |-> changeSet,
             status |-> changeSet.status, createdAt |-> changeSet.createdAt]
       ELSE db[x]]

\* updateChangeSetStatus(changeSetId, status): no row, no change
updateChangeSetStatus(db, changeSetId, status) ==
  IF changeSetId \notin DOMAIN db THEN db
  ELSE [db EXCEPT ![changeSetId].status = status,
                  ![changeSetId].payload.status = status]

RECURSIVE NewestFirst(_, _)
\* The rows `ids` of db ordered by created_at DESC (rows of one created_at in
\* an order SQLite leaves open).
NewestFirst(db, ids) ==
  IF ids = {} THEN <<>>
  ELSE LET top == CHOOSE x \in ids : \A y \in ids : db[y].createdAt <= db[x].createdAt
       IN  <<db[top].payload>> \o NewestFirst(db, ids \ {top})

\* A listing of every change set of the session, whatever its status
listSessionChangeSets(db, sessionId) ==
  NewestFirst(db, {x \in DOMAIN db : db[x].sessionId = sessionId})

\* listPendingChangeSets(sessionId)
listPendingChangeSets(db, sessionId) ==
  NewestFirst(db, {x \in DOMAIN db : db[x].sessionId = sessionId /\ db[x].status = "pending"})

(***************************************************************************)
(* patchService.ts: PatchService.  S is the state a call reads and writes: *)
(*   S.disk         the file system                                        *)
(*   S.changeSets   the CodeChangeSet objects, by id: the object most      *)
(*                  recently put into pendingById under that id            *)
(*   S.pendingById  the keys of the Map pendingById                        *)
(*   S.db           the change_sets table                                  *)
(***************************************************************************)
ChangeSetNotFound(changeSetId) ==
  Err("PATCH_APPLY_FAILED", "", <<"Change set not found", changeSetId>>)

\* What a call gives when database.safeCall throws out of it.
Thrown == Err("THROWN", "DATABASE_ERROR", <<>>)

SetObject(S, cs) ==
  [S EXCEPT !.changeSets = [x \in DOMAIN S.changeSets \cup {cs.id} |->
                              IF x = cs.id THEN cs ELSE S.changeSets[x]]]

\* this.pendingById.set(changeSet.id, changeSet)
MapSet(S, cs) == [SetObject(S, cs) EXCEPT !.pendingById = S.pendingById \cup {cs.id}]

\* this.pendingById.delete(changeSetId)
MapDelete(S, changeSetId) == [S EXCEPT !.pendingById = S.pendingById \ {changeSetId}]

\* changeSet.status = status
SetStatus(S, changeSetId, status) ==
  [S EXCEPT !.changeSets[changeSetId].status = status]

\* this.database.safeCall(() => this.database.updateChangeSetStatus(id, status))
PersistStatus(S, changeSetId, status) ==
  [S EXCEPT !.db = updateChangeSetStatus(S.db, changeSetId, status)]

RECURSIVE cacheFrom(_, _, _)
cacheFrom(S, changeSets, i) ==
  IF i > Len(changeSets) THEN S
  ELSE cacheFrom(IF changeSets[i].status = "pending" THEN MapSet(S, changeSets[i]) ELSE S,
                 changeSets, i + 1)

\* cacheChangeSets(changeSets)
cacheChangeSets(S, changeSets) == cacheFrom(S, changeSets, 1)

\* A registerChangeSet that keeps the entry an id already has
registerIfAbsent(S, changeSet, dbFails) ==
  IF changeSet.id \in S.pendingById
    THEN [S |-> S, res |-> Ok(S.changeSets[changeSet.id])]
    ELSE [S |-> [MapSet(S, changeSet) EXCEPT !.db = saveChangeSet(S.db, changeSet)],
          res |-> Ok(changeSet)]

\* registerChangeSet(changeSet)
registerChangeSet(S, changeSet, dbFails) ==
  LET S1 == MapSet(S, changeSet)
  IN  IF dbFails
        THEN [S |-> S1, res |-> Err("DATABASE_ERROR", "DATABASE_ERROR", <<>>)]
        ELSE [S |-> [S1 EXCEPT !.db = saveChangeSet(S.db, changeSet)], res |-> Ok(changeSet)]

\* getChangeSet(changeSetId): found is FALSE for undefined
getChangeSet(S, changeSetId) ==
  IF changeSetId \in S.pendingById
    THEN [found |-> TRUE, changeSet |-> S.changeSets[changeSetId]]
    ELSE [found |-> FALSE, changeSet |-> <<>>]

\* A discardChangeSet that marks the object and leaves the registry and the store alone
discardMarkedOnly(S, changeSetId, dbFails) ==
  IF ~getChangeSet(S, changeSetId).found
    THEN [S |-> S, res |-> ChangeSetNotFound(changeSetId)]
    ELSE [S |-> SetStatus(S, changeSetId, "discarded"), res |-> Ok(<<>>)]

\* discardChangeSet(changeSetId)
discardChangeSet(S, changeSetId, dbFails) ==
  IF ~getChangeSet(S, changeSetId).found
    THEN [S |-> S, res |-> ChangeSetNotFound(changeSetId)]
  ELSE LET S1 == MapDelete(SetStatus(S, changeSetId, "discarded"), changeSetId)
       IN  IF dbFails THEN [S |-> S1, res |-> Thrown]
           ELSE [S |-> PersistStatus(S1, changeSetId, "discarded"), res |-> Ok(<<>>)]

(* applyPatch(changeSetId, selectedFiles) is an async function that awaits one  *)
(* writeFile per selected patch.  A frame holds its locals; selectedFiles is    *)
(* [given |-> FALSE] for undefined, else the entries of the array as a set.     *)
PatchPathsOf(changeSet) ==
  {changeSet.filePatches[i].path : i \in 1..Len(changeSet.filePatches)}

\* A selection that reads an empty array as no selection given
selectedSetEmptyIsAll(changeSet, selectedFiles) ==
  IF selectedFiles.given /\ selectedFiles.files # {}
    THEN selectedFiles.files ELSE PatchPathsOf(changeSet)

\* new Set(selectedFiles ?? changeSet.filePatches.map((item) => item.path))
selectedSetOf(changeSet, selectedFiles) ==
  IF selectedFiles.given THEN selectedFiles.files ELSE PatchPathsOf(changeSet)

\* The frame at the call: the lookup in pendingById and the working set
apCall(S, changeSetId, selectedFiles) ==
  LET got == getChangeSet(S, changeSetId)
  IN  [pc |-> IF got.found THEN "loop" ELSE "done",
       changeSetId |-> changeSetId,
       selectedFiles |-> selectedFiles,
       found |-> got.found,
       selectedSet |-> IF got.found THEN selectedSetOf(got.changeSet, selectedFiles) ELSE {},
       i |-> 1, appliedFiles |-> <<>>, skippedFiles |-> <<>>,
       res |-> IF got.found THEN Ok(<<>>) ELSE ChangeSetNotFound(changeSetId)]

\* An applyPatch that gives up at the first failed write without recording it
apWriteFailedUnrecorded(S, a, filePatch, writeRes, dbFails) ==
  [S |-> S,
   a |-> [a EXCEPT !.pc = "done",
                   !.skippedFiles = Append(a.skippedFiles, filePatch.path),
                   !.res = Err("PATCH_APPLY_FAILED", writeRes.code, writeRes)]]

\* if (!writeResult.ok) { ... }: the change set fails and stays in pendingById
apWriteFailed(S, a, filePatch, writeRes, dbFails) ==
  LET S1 == SetStatus(S, a.changeSetId, "failed")
      a1 == [a EXCEPT !.pc = "done",
                      !.skippedFiles = Append(a.skippedFiles, filePatch.path)]
  IN  IF dbFails THEN [S |-> S1, a |-> [a1 EXCEPT !.res = Thrown]]
      ELSE [S |-> PersistStatus(S1, a.changeSetId, "failed"),
            a |-> [a1 EXCEPT !.res = Err("PATCH_APPLY_FAILED", writeRes.code, writeRes)]]

\* An applyPatch that keeps the applied change set in pendingById
apFinishKept(S, a, dbFails) ==
  [S |-> PersistStatus(SetStatus(S, a.changeSetId, "applied"), a.changeSetId, "applied"),
   a |-> [a EXCEPT !.pc = "done",
                   !.res = Ok([appliedFiles |-> a.appliedFiles,
                               skippedFiles |-> a.skippedFiles])]]

\* After the loop: applied, evicted, persisted
apFinish(S, a, dbFails) ==
  LET S1 == MapDelete(SetStatus(S, a.changeSetId, "applied"), a.changeSetId)
      a1 == [a EXCEPT !.pc = "done"]
  IN  IF dbFails THEN [S |-> S1, a |-> [a1 EXCEPT !.res = Thrown]]
      ELSE [S |-> PersistStatus(S1, a.changeSetId, "applied"),
            a |-> [a1 EXCEPT !.res = Ok([appliedFiles |-> a.appliedFiles,
                                          skippedFiles |-> a.skippedFiles])]]

\* One turn of the loop over changeSet.filePatches, or the code after it.
apStep(S, ws, now, rnd, a, dbFails) ==
  LET changeSet == S.changeSets[a.changeSetId]
  IN  IF a.i > Len(changeSet.filePatches) THEN apFinish(S, a, dbFails)
      ELSE LET filePatch == changeSet.filePatches[a.i]
           IN  IF filePatch.path \notin a.selectedSet
                 THEN [S |-> S,
                       a |-> [a EXCEPT !.i = a.i + 1,
                                       !.skippedFiles = Append(a.skippedFiles, filePatch.path)]]
               ELSE The({
                      IF ~wr.res.ok
                        THEN apWriteFailed([S EXCEPT !.disk = wr.fs], a, filePatch,
                                           wr.res, dbFails)
                        ELSE [S |-> [S EXCEPT !.disk = wr.fs],
                              a |-> [a EXCEPT !.i = a.i + 1,
                                              !.appliedFiles =
                                                 Append(a.appliedFiles, filePatch.path)]] :
                      wr \in {writeFile(S.disk, ws, now, rnd, filePatch.path,
                                        filePatch.newContent, filePatch.expectedSha256)}})

RECURSIVE apRun(_, _, _, _, _, _)
\* An applyPatch frame run to its end with nothing interleaved.
apRun(S, ws, now, rnd, a, dbFails) ==
  IF a.pc = "done" THEN [S |-> S, a |-> a]
  ELSE The({apRun(s.S, ws, now, rnd, s.a, dbFails) :
              s \in {apStep(S, ws, now, rnd, a, dbFails)}})

\* applyPatch(changeSetId, selectedFiles) as one uninterrupted call
applyPatch(S, ws, now, rnd, changeSetId, selectedFiles, dbFails) ==
  apRun(S, ws, now, rnd, apCall(S, changeSetId, selectedFiles), dbFails)

(***************************************************************************)
(* databaseService.ts: the command_runs and command_outputs tables         *)
(***************************************************************************)
\* saveCommandRun(runId, sessionId, payload): INSERT OR REPLACE
saveCommandRun(commandRuns, runId, sessionId, payload) ==
  [x \in DOMAIN commandRuns \cup {runId} |->
     IF x = runId THEN [sessionId |-> sessionId, payload |-> payload] ELSE commandRuns[x]]

\* t with v appended to the sequence at k (the empty sequence where t has none)
AppendAt(t, k, v) ==
  [x \in DOMAIN t \cup {k} |->
     IF x = k THEN Append(IF k \in DOMAIN t THEN t[k] ELSE <<>>, v) ELSE t[x]]

\* saveCommandOutput(sessionId, event): INSERT; the rows of a run_id, in order
saveCommandOutput(commandOutputs, sessionId, event) ==
  AppendAt(commandOutputs, event.runId, [sessionId |-> sessionId, payload |-> event])

(***************************************************************************)
(* shellService.ts: ShellService.  sh is the state a call or a handler     *)
(* reads and writes:                                                       *)
(*   sh.proposals       the ProposalRecord objects, by proposal id         *)
(*   sh.children        the child processes spawned, by run id             *)
(*   sh.events          what the 'output' listeners have received, in      *)
(*                      order, by the run id of the event                  *)
(*   sh.commandRuns     the command_runs table                             *)
(*   sh.commandOutputs  the command_outputs table, by run id               *)
(* A child process holds what it has written to its stdout and stderr      *)
(* pipes and node has not read yet.                                        *)
(***************************************************************************)
\* Map.prototype.set(k, v)
WithEntry(t, k, v) == [x \in DOMAIN t \cup {k} |-> IF x = k THEN v ELSE t[x]]

\* The values a caller passes as `confirmed`, and which of them are truthy
ConfirmedValues == {"true", "false", "undefined", "yes"}
Truthy(v) == v \notin {"false", "undefined"}

\* uuidv4(): the n-th id drawn
ProposalIdAt(n) == <<"p1", "p2", "p3", "p4">>[n]
RunIdAt(n) == <<"run1", "run2", "run3", "run4">>[n]

\* The n-th chunk a process writes to a stream
ChunkAt(stream, n) == <<stream, n>>

\* A CommandOutputEvent: chunk for stdout and stderr, code for exit
OutputEvent(runId, stream, chunk, code) ==
  [runId |-> runId, stream |-> stream, chunk |-> chunk, code |-> code]

\* A requestCommand that takes the joined path for the real one, unchecked.
cwdUnresolved(fs, absCwdCandidate) ==
  [exists |-> TRUE, isDir |-> TRUE, absCwd |-> absCwdCandidate]

\* absCwd = fs.realpathSync(absCwdCandidate); fs.statSync(absCwd).isDirectory()
cwdResolved(fs, absCwdCandidate) ==
  LET real == fsRealpath(fs, absCwdCandidate)
      stat == fsStatIsDirectory(fs, real.path)
  IN  [exists |-> real.ok /\ stat.ok, isDir |-> real.ok /\ stat.isDir, absCwd |-> real.path]

\* requestCommand(sessionId, command, cwd), id being the uuid drawn
requestCommand(sh, fs, ws, id, now, sessionId, command, cwd) ==
  IF ~ws.open THEN [sh |-> sh, res |-> Err("WORKSPACE_NOT_OPEN", "", <<>>)]
  ELSE
    LET absCwdCandidate == pathResolve(ws.rootPath, cwd)
        real == cwdResolved(fs, absCwdCandidate)
        proposal == [id |-> id, sessionId |-> sessionId, command |-> command,
                     cwd |-> cwd, createdAt |-> now, decision |-> "pending"]
    IN  IF ~isWithinRoot(ws.rootPath, absCwdCandidate)
          THEN [sh |-> sh, res |-> Err("PATH_OUTSIDE_WORKSPACE", "", <<"must be inside", cwd>>)]
        ELSE IF ~real.exists
          THEN [sh |-> sh, res |-> Err("INVALID_INPUT", "", <<"does not exist", cwd>>)]
        ELSE IF ~real.isDir
          THEN [sh |-> sh, res |-> Err("INVALID_INPUT", "", <<"must be a directory", cwd>>)]
        ELSE IF ~isWithinRoot(ws.rootPath, real.absCwd)
          THEN [sh |-> sh,
                res |-> Err("PATH_OUTSIDE_WORKSPACE", "", <<"resolves outside", cwd>>)]
        ELSE [sh |-> [sh EXCEPT !.proposals =
                        WithEntry(@, id, [proposal |-> proposal, absCwd |-> real.absCwd])],
              res |-> Ok(proposal)]

\* What spawn('bash', ['-lc', command], { cwd }) does: the child runs, or the
\* spawn fails after the call (the child emits 'error', then 'close'), or spawn
\* throws
SpawnOutcomes == {"spawned", "error", "throws"}

\* The errno that a failed spawn reports as the child's exit code
SpawnErrno == -2

\* new ChildProcess, as spawn returns it
ChildProcess(proposal, absCwd, outcome) ==
  [proposalId |-> proposal.id, sessionId |-> proposal.sessionId,
   command |-> proposal.command, cwd |-> absCwd,
   state |-> IF outcome = "spawned" THEN "running" ELSE "failed",
   exit |-> [isNumber |-> TRUE, code |-> 0],
   stdout |-> <<>>, stderr |-> <<>>,
   written |-> [stdout |-> 0, stderr |-> 0]]

\* A runCommand that trusts the working directory stored with the proposal.
cwdNotRevalidated(ws, absCwd) == TRUE

\* workspace && isWithinRoot(workspace.rootPath, absCwd)
cwdStillValid(ws, absCwd) == ws.open /\ isWithinRoot(ws.rootPath, absCwd)

\* runCommand(proposalId, confirmed), runId being the uuid drawn
runCommand(sh, ws, runId, now, proposalId, confirmed, outcome, dbFails) ==
  IF ~Truthy(confirmed) THEN [sh |-> sh, res |-> Err("COMMAND_DENIED", "", <<>>)]
  ELSE IF proposalId \notin DOMAIN sh.proposals
    THEN [sh |-> sh, res |-> Err("COMMAND_NOT_FOUND", "", <<proposalId>>)]
  ELSE IF ~cwdStillValid(ws, sh.proposals[proposalId].absCwd)
    THEN [sh |-> sh, res |-> Err("PATH_OUTSIDE_WORKSPACE", "", <<>>)]
  ELSE
    LET absCwd == sh.proposals[proposalId].absCwd
        approved == [sh EXCEPT !.proposals[proposalId].proposal.decision = "approved"]
        proposal == approved.proposals[proposalId].proposal
        saved == [approved EXCEPT !.commandRuns =
                    saveCommandRun(@, runId, proposal.sessionId,
                                   [proposal |-> proposal, startedAt |-> now,
                                    status |-> "running", code |-> 0])]
    IN  IF dbFails THEN [sh |-> approved, res |-> Thrown]
        ELSE IF outcome = "throws"
          THEN [sh |-> saved, res |-> Err("COMMAND_EXECUTION_FAILED", "SPAWN_ERROR", <<>>)]
        ELSE [sh |-> [saved EXCEPT !.children =
                        WithEntry(@, runId, ChildProcess(proposal, absCwd, outcome))],
              res |-> Ok([runId |-> runId, proposalId |-> proposalId, startedAt |-> now])]

PrependAt(t, k, v) ==
  [x \in DOMAIN t \cup {k} |->
     IF x = k THEN <<v>> \o (IF k \in DOMAIN t THEN t[k] ELSE <<>>) ELSE t[x]]

\* An emitOutput that hands the event to the listeners ahead of the earlier ones.
emitOutputFirst(sh, sessionId, event, dbFails) ==
  IF dbFails THEN [sh |-> sh, threw |-> TRUE]
  ELSE [sh |-> [sh EXCEPT !.commandOutputs = saveCommandOutput(@, sessionId, event),
                          !.events = PrependAt(@, event.runId, event)],
        threw |-> FALSE]

\* emitOutput(event): the event is stored, then emitted to the listeners
emitOutput(sh, sessionId, event, dbFails) ==
  IF dbFails THEN [sh |-> sh, threw |-> TRUE]
  ELSE [sh |-> [sh EXCEPT !.commandOutputs = saveCommandOutput(@, sessionId, event),
                          !.events = AppendAt(@, event.runId, event)],
        threw |-> FALSE]

\* child.stdout.on('data') / child.stderr.on('data')
onData(sh, runId, stream, chunk, dbFails) ==
  emitOutput(sh, sh.children[runId].sessionId, OutputEvent(runId, stream, chunk, 0),
             dbFails).sh

\* typeof code === 'number' ? code : 1
CloseCode(exit) == IF exit.isNumber THEN exit.code ELSE 1

\* child.on('close'): the exit event, then the run is stored as completed
onClose(sh, runId, now, exit, dbFails) ==
  LET child == sh.children[runId]
      emitted == emitOutput(sh, child.sessionId,
                            OutputEvent(runId, "exit", <<>>, CloseCode(exit)), dbFails)
      proposal == sh.proposals[child.proposalId].proposal
  IN  IF emitted.threw THEN sh
      ELSE [emitted.sh EXCEPT !.commandRuns =
              saveCommandRun(@, runId, proposal.sessionId,
                             [proposal |-> proposal, startedAt |-> @[runId].payload.startedAt,
                              status |-> "completed", code |-> CloseCode(exit)])]

\* child.on('error'): error.message as a stderr event
onError(sh, runId, message, dbFails) ==
  emitOutput(sh, sh.children[runId].sessionId, OutputEvent(runId, "stderr", message, 0),
             dbFails).sh

(***************************************************************************)
(* The state machine                                                       *)
(***************************************************************************)
VARIABLES
  disk,         \* the file system
  workspace,    \* WorkspaceService.workspace
  clock,        \* Date.now()
  changeSets,   \* the CodeChangeSet objects of PatchService, by id
  pendingById,  \* the keys of PatchService.pendingById
  db,           \* the change_sets table
  proposed,     \* the file patches of the change set an agent turn proposes
  writes,       \* how many writeFile calls the renderer has made
  ret,          \* the call that returned last: its inputs, locals and result
  inflight,     \* the writeFile call in progress, when calls run step by step
  shell,        \* ShellService, the child processes and the command tables
  query,        \* the arguments and the result of a pure function
  chat          \* AIService and SettingsService: turns, messages, key and settings

vars == <<disk, workspace, clock, changeSets, pendingById, db, proposed, writes, ret,
          inflight, shell, query, chat>>

\* Bounds of the model
MaxClock == 1
MaxPatches == 3
MaxWrites == 2

\* The state a PatchService call reads and writes
World == [disk |-> disk, changeSets |-> changeSets, pendingById |-> pendingById, db |-> db]

SetWorld(S) ==
  /\ disk' = S.disk
  /\ changeSets' = S.changeSets
  /\ pendingById' = S.pendingById
  /\ db' = S.db

NoFrame == [pc |-> "none"]
Ret(op, changeSetId, path, res, frame) ==
  [op |-> op, changeSetId |-> changeSetId, path |-> path, res |-> res, frame |-> frame]

EmptyTable == [x \in {} |-> <<>>]

\* No writeFile call is in progress
NoInflight == [busy |-> FALSE]

\* new ShellService(): no proposal, no child process, no event, no stored run
NoShell == [proposals |-> EmptyTable, children |-> EmptyTable, events |-> EmptyTable,
            commandRuns |-> EmptyTable, commandOutputs |-> EmptyTable]

\* No pure function has been called
NoQuery == [fn |-> "none"]

\* No chat turn has been started and no chat message saved; the settings
\* table has no last_session_id, getSettings() gives DEFAULT_SETTINGS and the
\* keychain holds no key
NoChat == [turns |-> <<>>, messages |-> <<>>, lastSessionId |-> "",
           openAIKey |-> <<>>,
           settings |-> [model |-> [t |-> "string", v |-> <<"gpt-4.1-mini">>],
                         temperature |-> [t |-> "number", v |-> <<"0.2">>],
                         maxContextFiles |-> [t |-> "number", v |-> <<"6">>],
                         requireCommandConfirmation |-> [t |-> "boolean", v |-> <<"true">>],
                         requirePatchConfirmation |-> [t |-> "boolean", v |-> <<"true">>]]]

\* Path strings of the model's file systems
RootPath == <<"/", "w", "/", "r">>
Under(root, rel) == root \o <<sep>> \o rel

\* The random suffix of a temporary file
RandTokens == {"r1"}

\* Whether a call's database.safeCall throws: the store works
StorageFaults == {FALSE}

(* The patch engine over a workspace /w/r that holds the files a and b and the *)
(* directory d (a patch for d fails in fs.rename).                             *)
PatchDisk ==
  Put(Put(Put(Put(Put(EmptyTable, <<"/", "w">>, DirNode), RootPath, DirNode),
              Under(RootPath, <<"a">>), FileNode("old")),
          Under(RootPath, <<"b">>), FileNode("old")),
      Under(RootPath, <<"d">>), DirNode)

\* Inputs of the patch engine
CsIds == {"c1"}
CallIds == {"c1", "c2"}
SessionIds == {"s1"}
PatchPaths == {<<"a">>, <<"b">>, <<"d">>}
NewContentAt(i) == <<"n1", "n2", "n3", "n4", "n5", "n6", "n7", "n8", "n9">>[i]
Selections == {[given |-> FALSE, files |-> {}]}
                \cup {[given |-> TRUE, files |-> f] : f \in SUBSET PatchPaths}

\* The selections tried with an id: all of them with the id of a change set, and
\* the default with an id no change set has (the lookup fails before it is read)
SelectionsFor(id) ==
  IF id \in CsIds THEN Selections ELSE {[given |-> FALSE, files |-> {}]}

\* The file patches of a change set: the patch at position i proposes the
\* content NewContentAt(i).  (originalContent, which no call here reads, is
\* left out.)
PatchKinds ==
  {[path |-> <<"a">>, expectedSha256 |-> NoSha],
   [path |-> <<"b">>, expectedSha256 |-> sha256("old")],
   [path |-> <<"d">>, expectedSha256 |-> NoSha]}

FilePatchLists ==
  UNION {
    {[i \in 1..n |-> [path |-> ks[i].path, newContent |-> NewContentAt(i),
                      expectedSha256 |-> ks[i].expectedSha256]] :
        ks \in [1..n -> PatchKinds]} :
    n \in 1..MaxPatches}

Init ==
  /\ disk = PatchDisk
  /\ workspace = NoWorkspace
  /\ clock = 0
  /\ changeSets = EmptyTable
  /\ pendingById = {}
  /\ db = EmptyTable
  /\ proposed \in FilePatchLists
  /\ writes = 0
  /\ ret = Ret("none", "", <<>>, Ok(<<>>), NoFrame)
  /\ inflight = NoInflight
  /\ shell = NoShell
  /\ query = NoQuery
  /\ chat = NoChat

CodeChangeSet(id, sessionId, createdAt, filePatches) ==
  [id |-> id, sessionId |-> sessionId, createdAt |-> createdAt,
   status |-> "pending", filePatches |-> filePatches]

\* Time passes.
Tick ==
  /\ clock < MaxClock
  /\ clock' = clock + 1
  /\ ret' = Ret("tick", "", <<>>, Ok(<<>>), NoFrame)
  /\ UNCHANGED <<disk, workspace, changeSets, pendingById, db, proposed, writes,
               inflight, shell, query, chat>>

\* ipc openWorkspace -> WorkspaceService.openWorkspace
OpenWorkspace(workspacePath) ==
  \E r \in {openWorkspace(disk, workspace, workspacePath)} :
      /\ workspace' = r.workspace
      /\ ret' = Ret("openWorkspace", "", workspacePath, r.res, NoFrame)
      /\ UNCHANGED <<disk, clock, changeSets, pendingById, db, proposed, writes,
               inflight, shell, query, chat>>

\* ipc readFile -> WorkspaceService.readFile
ReadFile(relativePath) ==
  /\ ret' = Ret("readFile", "", relativePath, readFile(disk, workspace, relativePath), NoFrame)
  /\ UNCHANGED <<disk, workspace, clock, changeSets, pendingById, db, proposed, writes,
               inflight, shell, query, chat>>

\* ipc listTree -> WorkspaceService.listTree
ListTree(relativePath, depth) ==
  /\ ret' = Ret("listTree", "", relativePath, listTree(disk, workspace, relativePath, depth),
                [pc |-> "none", depth |-> depth])
  /\ UNCHANGED <<disk, workspace, clock, changeSets, pendingById, db, proposed, writes,
                 inflight, shell, query, chat>>

\* ipc writeFile -> WorkspaceService.writeFile
WriteFile(relativePath, content, expectedSha256, rnd) ==
  /\ writes < MaxWrites
  /\ \E r \in {writeFile(disk, workspace, clock, rnd, relativePath, content, expectedSha256)} :
       /\ disk' = r.fs
       /\ ret' = Ret("writeFile", "", relativePath, r.res, r.w)
  /\ writes' = writes + 1
  /\ UNCHANGED <<workspace, clock, changeSets, pendingById, db, proposed,
               inflight, shell, query, chat>>

\* AIService.executeTurn -> PatchService.registerChangeSet
RegisterChangeSet(changeSet, dbFails) ==
  \E r \in {registerChangeSet(World, changeSet, dbFails)} :
      /\ SetWorld(r.S)
      /\ ret' = Ret("registerChangeSet", changeSet.id, <<>>, r.res,
                    [pc |-> "none", changeSet |-> changeSet])
      /\ UNCHANGED <<workspace, clock, proposed, writes,
               inflight, shell, query, chat>>

\* ipc applyPatch -> PatchService.applyPatch
ApplyPatch(changeSetId, selectedFiles, rnd, dbFails) ==
  \E r \in {applyPatch(World, workspace, clock, rnd, changeSetId, selectedFiles, dbFails)} :
      /\ SetWorld(r.S)
      /\ ret' = Ret("applyPatch", changeSetId, <<>>, r.a.res, r.a)
      /\ UNCHANGED <<workspace, clock, proposed, writes,
               inflight, shell, query, chat>>

\* ipc discardChangeSet -> PatchService.discardChangeSet
DiscardChangeSet(changeSetId, dbFails) ==
  \E r \in {discardChangeSet(World, changeSetId, dbFails)} :
      /\ SetWorld(r.S)
      /\ ret' = Ret("discardChangeSet", changeSetId, <<>>, r.res, NoFrame)
      /\ UNCHANGED <<workspace, clock, proposed, writes,
               inflight, shell, query, chat>>

\* ipc loadSession: database.loadSession, then PatchService.cacheChangeSets
LoadSession(sessionId) ==
  \E pendingChangeSets \in {listPendingChangeSets(db, sessionId)} :
      /\ SetWorld(cacheChangeSets(World, pendingChangeSets))
      /\ ret' = Ret("loadSession", "", <<>>, Ok(pendingChangeSets),
                    [pc |-> "none", sessionId |-> sessionId])
      /\ UNCHANGED <<workspace, clock, proposed, writes,
               inflight, shell, query, chat>>

\* The user deletes a file of the workspace outside the application.
EnvRemove(p) ==
  /\ p \in DOMAIN disk
  /\ disk[p].kind = "file"
  /\ disk' = Drop(disk, p)
  /\ ret' = Ret("envRemove", "", p, Ok(<<>>), NoFrame)
  /\ UNCHANGED <<workspace, clock, changeSets, pendingById, db, proposed, writes,
               inflight, shell, query, chat>>

\* uuidv4(): an id no change set has had
FreshId(id) == id \notin DOMAIN changeSets /\ id \notin DOMAIN db

(***************************************************************************)
(* Spec: the patch engine.  One agent turn proposes a change set; the      *)
(* renderer applies it (whole or by selection), discards it and reloads    *)
(* the session, in any order and any number of times.                      *)
(***************************************************************************)
Next ==
  \/ OpenWorkspace(RootPath)
  \/ \E id \in CsIds, sid \in SessionIds, f \in StorageFaults :
       FreshId(id) /\ RegisterChangeSet(CodeChangeSet(id, sid, clock, proposed), f)
  \/ \E id \in CallIds, rnd \in RandTokens, f \in StorageFaults :
       \E sel \in SelectionsFor(id) : ApplyPatch(id, sel, rnd, f)
  \/ \E id \in CallIds, f \in StorageFaults : DiscardChangeSet(id, f)
  \/ \E sid \in SessionIds : LoadSession(sid)
  \/ EnvRemove(Under(RootPath, <<"b">>))

Spec == Init /\ [][Next]_vars

(***************************************************************************)
(* SpecFiles: the workspace file service.  Beside the workspace /w/r lies  *)
(* the directory /w/o with the file s; /w/r/l is a symlink to /w/o.        *)
(***************************************************************************)
OutsidePath == <<"/", "w", "/", "o">>

FilesDisk ==
  Put(Put(Put(Put(Put(Put(Put(EmptyTable, <<"/", "w">>, DirNode), RootPath, DirNode),
                      Under(RootPath, <<"a">>), FileNode("old")),
                  Under(RootPath, <<"d">>), DirNode),
              OutsidePath, DirNode),
          Under(OutsidePath, <<"s">>), FileNode("old")),
      Under(RootPath, <<"l">>), LinkNode(OutsidePath))

\* Relative paths without dot segments, symlinks or a leading separator
PlainPaths == {<<"a">>, <<"c">>, <<"n", "/", "c">>, <<"d">>}

\* The relativePath arguments of the model
RelPaths ==
  PlainPaths \cup
  {<<"l", "/", "s">>,
   <<"..", "/", "o", "/", "s">>,
   <<"..", "/", "..", "/", "..", "/", "w", "/", "r", "/", "a">>,
   <<"/", "w", "/", "r", "/", "a">>}

Contents == {"new"}
ExpectedChoices == {NoSha, sha256("old")}

InitFiles ==
  /\ disk = FilesDisk
  /\ workspace = NoWorkspace
  /\ clock = 0
  /\ changeSets = EmptyTable
  /\ pendingById = {}
  /\ db = EmptyTable
  /\ proposed = <<>>
  /\ writes = 0
  /\ ret = Ret("none", "", <<>>, Ok(<<>>), NoFrame)
  /\ inflight = NoInflight
  /\ shell = NoShell
  /\ query = NoQuery
  /\ chat = NoChat

NextFiles ==
  \/ Tick
  \/ OpenWorkspace(RootPath)
  \/ \E rel \in RelPaths : ReadFile(rel)
  \/ \E rel \in RelPaths, c \in Contents, e \in ExpectedChoices, rnd \in RandTokens :
       WriteFile(rel, c, e, rnd)

SpecFiles == InitFiles /\ [][NextFiles]_vars

(***************************************************************************)
(* SpecWrite: one writeFile call at a time, run one await at a time.  The  *)
(* clock may advance between two awaits, and the file-system call of an    *)
(* await may fail with an I/O error (a full disk): a failed fs.writeFile   *)
(* leaves nothing or a truncated file at the path it was writing.          *)
(***************************************************************************)
WritePaths ==
  {<<"a">>, <<"c">>, <<"d">>, <<"n", "/", "c">>,
   <<"..", "/", "..", "/", "..", "/", "w", "/", "r", "/", "a">>}

\* The path an await of writeFile writes a file at, <<>> when it writes none
wfWrittenPath(w) ==
  CASE w.pc = "backupWrite" -> w.backupPath
    [] w.pc = "tmpWrite" -> w.tmpPath
    [] OTHER -> <<>>

\* The fs call of the await at w.pc rejects; torn: fs.writeFile had created the
\* file and written none of the content when it failed
wfFault(fs, w, torn) ==
  LET p == wfWrittenPath(w)
      wrote == fsWriteFile(fs, p, "")
  IN  [fs |-> IF torn /\ p # <<>> /\ wrote.ok THEN wrote.fs ELSE fs,
       w |-> wfThrow(w, "FS_ERROR", <<>>)]

\* ipc writeFile -> WorkspaceService.writeFile: the call is made
WriteFileCall(relativePath, content, expectedSha256, rnd) ==
  /\ ~inflight.busy
  /\ writes < MaxWrites
  /\ writes' = writes + 1
  /\ \E w \in {wfCall(workspace, relativePath, content, expectedSha256)} :
       /\ inflight' = [busy |-> TRUE, w |-> w, rnd |-> rnd, start |-> disk]
       /\ ret' = Ret("writeFileCall", "", relativePath, w.res, w)
  /\ UNCHANGED <<disk, workspace, clock, changeSets, pendingById, db, proposed,
                 shell, query, chat>>

\* The next await of the writeFile call in progress completes
WriteFileStep ==
  /\ inflight.busy
  /\ inflight.w.pc # "done"
  /\ \E s \in {wfStep(disk, clock, inflight.rnd, inflight.w)} :
       /\ disk' = s.fs
       /\ inflight' = [inflight EXCEPT !.w = s.w]
       /\ ret' = Ret("writeFileStep", "", inflight.w.relativePath, s.w.res, s.w)
  /\ UNCHANGED <<workspace, clock, changeSets, pendingById, db, proposed, writes,
                 shell, query, chat>>

\* The fs call of the next await of the writeFile call in progress fails
WriteFileFault(torn) ==
  /\ inflight.busy
  /\ inflight.w.pc \in {"mkdir", "backupMkdir", "backupWrite", "tmpWrite", "rename"}
  /\ \E s \in {wfFault(disk, inflight.w, torn)} :
       /\ disk' = s.fs
       /\ inflight' = [inflight EXCEPT !.w = s.w]
       /\ ret' = Ret("writeFileStep", "", inflight.w.relativePath, s.w.res, s.w)
  /\ UNCHANGED <<workspace, clock, changeSets, pendingById, db, proposed, writes,
                 shell, query, chat>>

\* The writeFile call in progress returns its result
WriteFileReturn ==
  /\ inflight.busy
  /\ inflight.w.pc = "done"
  /\ inflight' = NoInflight
  /\ ret' = Ret("writeFileReturn", "", inflight.w.relativePath, inflight.w.res, inflight.w)
  /\ UNCHANGED <<disk, workspace, clock, changeSets, pendingById, db, proposed, writes,
                 shell, query, chat>>

NextWrite ==
  \/ Tick
  \/ OpenWorkspace(RootPath)
  \/ \E rel \in WritePaths, c \in Contents, e \in ExpectedChoices, rnd \in RandTokens :
       WriteFileCall(rel, c, e, rnd)
  \/ WriteFileStep
  \/ \E torn \in BOOLEAN : WriteFileFault(torn)
  \/ WriteFileReturn

SpecWrite == InitFiles /\ [][NextWrite]_vars

(***************************************************************************)
(* SpecShell: the command service.  The agent proposes commands, the user  *)
(* confirms them (or a caller passes something else as `confirmed`), the   *)
(* workspace is opened at /w/r or at /w/o in between, and the processes    *)
(* spawned write to their pipes and end.  The store works.                 *)
(***************************************************************************)
MaxProposals == 1
MaxRuns == 2
MaxChunks == 2

ShellCwds == {<<".">>, <<"d">>, <<"a">>, <<"l">>, <<"x">>, <<"..", "/">>}
Commands == {"cmd"}
CalledProposalIds == {ProposalIdAt(n) : n \in 1..MaxProposals} \cup {"p0"}
Streams == {"stdout", "stderr"}

\* How a process ends: with an exit code, or killed by a signal (code null)
ExitStatuses == {[isNumber |-> TRUE, code |-> 0], [isNumber |-> FALSE, code |-> 0]}

ShellRet(op, proposalId, cwd, res, confirmed, runId) ==
  Ret(op, proposalId, cwd, res, [pc |-> "none", confirmed |-> confirmed, runId |-> runId])

\* AIService.executeTurn / ipc requestCommand -> ShellService.requestCommand
RequestCommand(sessionId, command, cwd) ==
  /\ Cardinality(DOMAIN shell.proposals) < MaxProposals
  /\ \E id \in {ProposalIdAt(Cardinality(DOMAIN shell.proposals) + 1)} :
       \E r \in {requestCommand(shell, disk, workspace, id, clock, sessionId, command, cwd)} :
          /\ shell' = r.sh
          /\ ret' = ShellRet("requestCommand", id, cwd, r.res, "", "")
  /\ UNCHANGED <<disk, workspace, clock, changeSets, pendingById, db, proposed, writes,
                 inflight, query, chat>>

\* ipc runCommand -> ShellService.runCommand
RunCommand(proposalId, confirmed, outcome, dbFails) ==
  /\ Cardinality(DOMAIN shell.commandRuns) < MaxRuns
  /\ \E runId \in {RunIdAt(Cardinality(DOMAIN shell.commandRuns) + 1)} :
       \E r \in {runCommand(shell, workspace, runId, clock, proposalId, confirmed,
                            outcome, dbFails)} :
          /\ shell' = r.sh
          /\ ret' = ShellRet("runCommand", proposalId, <<>>, r.res, confirmed, runId)
  /\ UNCHANGED <<disk, workspace, clock, changeSets, pendingById, db, proposed, writes,
                 inflight, query, chat>>

\* A running process writes its next chunk to one of its pipes.
ChildWrite(runId, stream) ==
  /\ runId \in DOMAIN shell.children
  /\ shell.children[runId].state = "running"
  /\ shell.children[runId].written[stream] < MaxChunks
  /\ \E n \in {shell.children[runId].written[stream] + 1} :
       shell' = [shell EXCEPT !.children[runId].written[stream] = n,
                              !.children[runId][stream] = Append(@, ChunkAt(stream, n))]
  /\ ret' = ShellRet("childWrite", "", <<>>, Ok(<<>>), "", runId)
  /\ UNCHANGED <<disk, workspace, clock, changeSets, pendingById, db, proposed, writes,
                 inflight, query, chat>>

\* A running process ends.
ChildExit(runId, exit) ==
  /\ runId \in DOMAIN shell.children
  /\ shell.children[runId].state = "running"
  /\ shell' = [shell EXCEPT !.children[runId].state = "exited",
                            !.children[runId].exit = exit]
  /\ ret' = ShellRet("childExit", "", <<>>, Ok(<<>>), "", runId)
  /\ UNCHANGED <<disk, workspace, clock, changeSets, pendingById, db, proposed, writes,
                 inflight, query, chat>>

\* node reads the oldest chunk of a pipe: the stream's 'data' event
ChildData(runId, stream, dbFails) ==
  /\ runId \in DOMAIN shell.children
  /\ shell.children[runId][stream] # <<>>
  /\ \E chunk \in {Head(shell.children[runId][stream])} :
       shell' = onData([shell EXCEPT !.children[runId][stream] = Tail(@)],
                       runId, stream, chunk, dbFails)
  /\ ret' = ShellRet("childData", "", <<>>, Ok(<<>>), "", runId)
  /\ UNCHANGED <<disk, workspace, clock, changeSets, pendingById, db, proposed, writes,
                 inflight, query, chat>>

\* The child of a failed spawn emits 'error'; its exit code is the errno
ChildError(runId, dbFails) ==
  /\ runId \in DOMAIN shell.children
  /\ shell.children[runId].state = "failed"
  /\ shell' = onError([shell EXCEPT !.children[runId].state = "exited",
                                    !.children[runId].exit =
                                       [isNumber |-> TRUE, code |-> SpawnErrno]],
                      runId, <<"spawn failed">>, dbFails)
  /\ ret' = ShellRet("childError", "", <<>>, Ok(<<>>), "", runId)
  /\ UNCHANGED <<disk, workspace, clock, changeSets, pendingById, db, proposed, writes,
                 inflight, query, chat>>

\* The process has ended and its pipes are drained and closed: 'close'
ChildClose(runId, dbFails) ==
  /\ runId \in DOMAIN shell.children
  /\ shell.children[runId].state = "exited"
  /\ shell.children[runId].stdout = <<>>
  /\ shell.children[runId].stderr = <<>>
  /\ shell' = onClose([shell EXCEPT !.children[runId].state = "closed"],
                      runId, clock, shell.children[runId].exit, dbFails)
  /\ ret' = ShellRet("childClose", "", <<>>, Ok(<<>>), "", runId)
  /\ UNCHANGED <<disk, workspace, clock, changeSets, pendingById, db, proposed, writes,
                 inflight, query, chat>>

RunIds == {RunIdAt(n) : n \in 1..MaxRuns}

NextShell ==
  \/ OpenWorkspace(RootPath)
  \/ OpenWorkspace(OutsidePath)
  \/ \E sid \in SessionIds, cmd \in Commands, cwd \in ShellCwds : RequestCommand(sid, cmd, cwd)
  \/ \E id \in CalledProposalIds, c \in ConfirmedValues, o \in SpawnOutcomes,
        f \in StorageFaults : RunCommand(id, c, o, f)
  \/ \E runId \in RunIds, exit \in ExitStatuses : ChildExit(runId, exit)
  \/ \E runId \in RunIds, f \in StorageFaults : ChildError(runId, f)
  \/ \E runId \in RunIds, f \in StorageFaults : ChildClose(runId, f)

SpecShell == InitFiles /\ [][NextShell]_vars

(***************************************************************************)
(* SpecStream: the output of confirmed commands.  One proposal is made at  *)
(* the workspace root and run, more than once; the processes write to      *)
(* their pipes, node reads the pipes, and the processes end.               *)
(***************************************************************************)
NextStream ==
  \/ OpenWorkspace(RootPath)
  \/ \E sid \in SessionIds, cmd \in Commands : RequestCommand(sid, cmd, <<".">>)
  \/ \E o \in SpawnOutcomes, f \in StorageFaults : RunCommand(ProposalIdAt(1), "true", o, f)
  \/ \E runId \in RunIds, stream \in Streams : ChildWrite(runId, stream)
  \/ \E runId \in RunIds, exit \in ExitStatuses : ChildExit(runId, exit)
  \/ \E runId \in RunIds, stream \in Streams, f \in StorageFaults : ChildData(runId, stream, f)
  \/ \E runId \in RunIds, f \in StorageFaults : ChildError(runId, f)
  \/ \E runId \in RunIds, f \in StorageFaults : ChildClose(runId, f)

SpecStream == InitFiles /\ [][NextStream]_vars

(***************************************************************************)
(* SpecTree: listings, reads and writes of a workspace with symlinks.  In  *)
(* the workspace /w/r of SpecFiles the directory d now holds the file e,   *)
(* the symlink k to the file /w/o/s outside, the symlink m to the file a   *)
(* inside, and the directory f with the symlink j to /w/o.                 *)
(***************************************************************************)
MaxDepth == 3

TreeDisk ==
  Put(Put(Put(Put(Put(FilesDisk,
                      Under(RootPath, <<"d", "/", "e">>), FileNode("old")),
                  Under(RootPath, <<"d", "/", "k">>), LinkNode(Under(OutsidePath, <<"s">>))),
              Under(RootPath, <<"d", "/", "m">>), LinkNode(Under(RootPath, <<"a">>))),
          Under(RootPath, <<"d", "/", "f">>), DirNode),
      Under(RootPath, <<"d", "/", "f", "/", "j">>), LinkNode(OutsidePath))

\* Relative paths with `..` segments that lead out of /w/r
EscapingPaths ==
  {<<"..">>,
   <<"..", "/", "o", "/", "s">>,
   <<"..", "/", "..", "/", "w", "/", "o", "/", "s">>,
   <<"d", "/", "..", "/", "..", "/", "o">>,
   <<"d", "/", "f", "/", "..", "/", "..", "/", "..", "/", "o", "/", "s">>,
   <<"..", "/", "r", "-x">>}

\* The relativePath arguments of SpecTree
TreePaths ==
  EscapingPaths \cup
  {<<".">>, <<"a">>, <<"d">>, <<"d", "/", "f">>, <<"x">>,
   <<"l">>, <<"l", "/", "s">>, <<"d", "/", "k">>, <<"d", "/", "m">>, <<"d", "/", "f", "/", "j">>,
   <<"d", "/", "..", "/", "a">>}

\* The relativePath arguments of the writeFile calls of SpecTree
WrittenTreePaths == EscapingPaths \cup {<<"c">>, <<"d", "/", "k">>}

InitTree ==
  /\ disk = TreeDisk
  /\ workspace = NoWorkspace
  /\ clock = 0
  /\ changeSets = EmptyTable
  /\ pendingById = {}
  /\ db = EmptyTable
  /\ proposed = <<>>
  /\ writes = 0
  /\ ret = Ret("none", "", <<>>, Ok(<<>>), NoFrame)
  /\ inflight = NoInflight
  /\ shell = NoShell
  /\ query = NoQuery
  /\ chat = NoChat

NextTree ==
  \/ OpenWorkspace(RootPath)
  \/ \E rel \in TreePaths, depth \in 1..MaxDepth : ListTree(rel, depth)
  \/ \E rel \in TreePaths : ReadFile(rel)
  \/ \E rel \in WrittenTreePaths, c \in Contents, rnd \in RandTokens :
       WriteFile(rel, c, NoSha, rnd)

SpecTree == InitTree /\ [][NextTree]_vars

(***************************************************************************)
(* SpecFaults: the services over a store that may fail.  A one-patch       *)
(* change set is registered, applied and discarded, a command is proposed  *)
(* and run, and files are read, listed and written; database.safeCall      *)
(* throws in the calls whose dbFails is TRUE.                              *)
(***************************************************************************)
InitFaults == Init /\ Len(proposed) = 1

NextFaults ==
  \/ OpenWorkspace(RootPath)
  \/ OpenWorkspace(<<"/", "w", "/", "x">>)
  \/ ReadFile(<<"x">>)
  \/ ListTree(<<"x">>, 1)
  \/ \E c \in Contents, rnd \in RandTokens : WriteFile(<<"d">>, c, NoSha, rnd)
  \/ \E id \in CsIds, sid \in SessionIds, f \in BOOLEAN :
       FreshId(id) /\ RegisterChangeSet(CodeChangeSet(id, sid, clock, proposed), f)
  \/ \E id \in CsIds, rnd \in RandTokens, f \in BOOLEAN :
       ApplyPatch(id, [given |-> FALSE, files |-> {}], rnd, f)
  \/ \E id \in CsIds, f \in BOOLEAN : DiscardChangeSet(id, f)
  \/ \E sid \in SessionIds, cmd \in Commands, cwd \in {<<".">>, <<"x">>} :
       RequestCommand(sid, cmd, cwd)
  \/ \E o \in {"spawned", "throws"}, f \in BOOLEAN : RunCommand(ProposalIdAt(1), "true", o, f)

SpecFaults == InitFaults /\ [][NextFaults]_vars

(***************************************************************************)
(* SpecPaths: isWithinRoot as a function of its two arguments.  The root   *)
(* and the candidate are absolute path strings, normalised or not: with    *)
(* dot segments, doubled and trailing separators, and names that continue  *)
(* the name of the root.                                                   *)
(***************************************************************************)
QueryRoots ==
  {RootPath,
   <<"/", "w", "/", "r", "/">>,
   <<"/", "w", "/", "o", "/", "..", "/", "r">>,
   <<"/", "w">>,
   <<"/">>,
   <<"/", "w", "/", "r", "-x">>}

QueryCandidates ==
  {RootPath,
   <<"/", "w", "/", "r", "/">>,
   <<"/", "w", "/", "r", "/", "a">>,
   <<"/", "w", "/", "r", "/", "d", "/", "a">>,
   <<"/", "w", "/", "r", "/", "/", "a">>,
   <<"/", "w", "/", "r", "/", ".", "/", "a">>,
   <<"/", "w", "/", "r", "/", "d", "/", "..">>,
   <<"/", "w", "/", "r", "/", "..">>,
   <<"/", "w", "/", "r", "/", "..", "/", "o">>,
   <<"/", "w", "/", "r", "/", "..", "/", "r", "/", "a">>,
   <<"/", "w", "/", "r", "-x">>,
   <<"/", "w", "/", "r", "-x", "/", "a">>,
   <<"/", "w", "/", "r", "-x", "/", "..", "/", "r">>,
   <<"/", "w", "/", "o">>,
   <<"/", "w">>,
   <<"/", "r">>,
   <<"/", "w", "/", "w", "/", "r">>,
   <<"/">>,
   <<"/", "..", "/", "w", "/", "r", "/", "a">>,
   <<"/", "w", "/", "r", "/", "a", "-x">>}

InitPaths ==
  /\ disk = FilesDisk
  /\ workspace = NoWorkspace
  /\ clock = 0
  /\ changeSets = EmptyTable
  /\ pendingById = {}
  /\ db = EmptyTable
  /\ proposed = <<>>
  /\ writes = 0
  /\ ret = Ret("none", "", <<>>, Ok(<<>>), NoFrame)
  /\ inflight = NoInflight
  /\ shell = NoShell
  /\ query \in {[fn |-> "isWithinRoot", rootPath |-> r, candidatePath |-> c,
                 done |-> FALSE, result |-> FALSE] :
                  r \in QueryRoots, c \in QueryCandidates}
  /\ chat = NoChat

\* isWithinRoot is called with the arguments drawn
IsWithinRootCall ==
  /\ query.fn = "isWithinRoot"
  /\ ~query.done
  /\ query' = [query EXCEPT !.done = TRUE,
                            !.result = isWithinRoot(query.rootPath, query.candidatePath)]
  /\ ret' = Ret("isWithinRoot", "", query.candidatePath, Ok(<<>>), NoFrame)
  /\ UNCHANGED <<disk, workspace, clock, changeSets, pendingById, db, proposed, writes,
                 inflight, shell, chat>>

NextPaths == IsWithinRootCall

SpecPaths == InitPaths /\ [][NextPaths]_vars

(***************************************************************************)
(* Properties of the patch engine (Spec)                                   *)
(***************************************************************************)
TerminalStatuses == {"applied", "failed", "discarded"}

\* The entry of a file system at a physical path, "none" where there is no entry
NodeAt(fs, p) ==
  IF p \in DOMAIN fs THEN fs[p] ELSE [kind |-> "none", content |-> "", target |-> <<>>]

\* The step is the return of an applyPatch / discardChangeSet call.
IsResolveCall == ret'.op \in {"applyPatch", "discardChangeSet"}

\* C1: once the status of a change set has become applied, failed or discarded,
\* no later applyPatch or discardChangeSet call changes it, neither the status
\* of the object in memory nor the persisted one.
C1_TerminalStatusIsFinal ==
  [][IsResolveCall =>
       \A id \in DOMAIN changeSets :
          /\ changeSets[id].status \in TerminalStatuses
               => changeSets'[id].status = changeSets[id].status
          /\ (id \in DOMAIN db /\ db[id].status \in TerminalStatuses)
               => db'[id].status = db[id].status]_vars

\* C2: applyPatch or discardChangeSet with an id that is unknown, or whose change
\* set is already applied, failed or discarded, returns PATCH_APPLY_FAILED
\* (change set not found) and writes no file; so no change set succeeds twice.
C2_ResolvedOrUnknownIsNotFound ==
  [][(/\ IsResolveCall
      /\ \/ ret'.changeSetId \notin DOMAIN changeSets
         \/ changeSets[ret'.changeSetId].status \in TerminalStatuses)
       => /\ ret'.res = ChangeSetNotFound(ret'.changeSetId)
          /\ disk' = disk]_vars

\* C3: in every reachable state, every change set that getChangeSet returns
\* (every entry of the live pending registry) has status pending.
C3_RegistryHoldsOnlyPending ==
  \A id \in CallIds :
     getChangeSet(World, id).found => getChangeSet(World, id).changeSet.status = "pending"

\* The step is the return of an applyPatch call that found its change set.
IsApplyReturn == ret'.op = "applyPatch" /\ ret'.frame.found

Max(S) == CHOOSE x \in S : \A y \in S : y <= x

\* The working set of an apply: the selected paths, by default every patch path
WorkingSet(changeSet, selectedFiles) ==
  IF selectedFiles.given THEN selectedFiles.files
  ELSE {changeSet.filePatches[i].path : i \in 1..Len(changeSet.filePatches)}

\* What the file q of the workspace is once the patches of ps before position k
\* that are in the working set have been written over fs, in order
AfterWrites(fs, ps, working, q, k) ==
  LET W == {i \in 1..(k - 1) : ps[i].path = q /\ q \in working}
  IN  IF W = {} THEN NodeAt(fs, Under(RootPath, q)) ELSE FileNode(ps[Max(W)].newContent)

\* What applyPatch leaves of a failed apply: status failed, in memory and
\* persisted, and PATCH_APPLY_FAILED carrying the error of the write of patch k,
\* which is HASH_MISMATCH exactly when the file then on disk has another
\* fingerprint than the patch expects
FailedAt(id, ps, working, k) ==
  LET cur == AfterWrites(disk, ps, working, ps[k].path, k)
      stale == /\ cur.kind = "file"
               /\ ps[k].expectedSha256 # NoSha
               /\ sha256(cur.content) # ps[k].expectedSha256
  IN  /\ changeSets'[id].status = "failed"
      /\ db'[id].status = "failed"
      /\ ret'.res.code = "PATCH_APPLY_FAILED"
      /\ ~ret'.res.details.ok
      /\ ret'.res.details.code \in {"HASH_MISMATCH", "INTERNAL_ERROR"}
      /\ stale <=> ret'.res.details.code = "HASH_MISMATCH"
      /\ stale => ret'.res.details.details =
                    <<ps[k].path, ps[k].expectedSha256, sha256(cur.content)>>

AppliedAs(id, ps, working) ==
  LET paths == [i \in 1..Len(ps) |-> ps[i].path]
      IsIn(q) == q \in working
      IsOut(q) == q \notin working
  IN  /\ changeSets'[id].status = "applied"
      /\ db'[id].status = "applied"
      /\ id \notin pendingById'
      /\ ret'.res.value.appliedFiles = SelectSeq(paths, IsIn)
      /\ ret'.res.value.skippedFiles = SelectSeq(paths, IsOut)
      /\ \A i \in 1..Len(ps) :
           IsOut(ps[i].path)
             => NodeAt(disk', Under(RootPath, ps[i].path))
                  = NodeAt(disk, Under(RootPath, ps[i].path))

C7_ExpectedShaGuardsWrite ==
  [][IsApplyReturn =>
       LET a == ret'.frame
           id == a.changeSetId
           ps == changeSets[id].filePatches
           working == WorkingSet(changeSets[id], a.selectedFiles)
           Reached(i) == i <= a.i /\ i <= Len(ps)
           Written(i) == i < a.i
       IN  \A i \in 1..Len(ps) :
              (Reached(i) /\ ps[i].path \in working /\ ps[i].expectedSha256 # NoSha)
                => LET cur == AfterWrites(disk, ps, working, ps[i].path, i)
                       matches == cur.kind = "file"
                                  /\ sha256(cur.content) = ps[i].expectedSha256
                   IN  /\ Written(i) => matches
                       /\ ~matches =>
                            /\ ~ret'.res.ok
                            /\ NodeAt(disk', Under(RootPath, ps[i].path)) = cur]_vars

(***************************************************************************)
(* Properties of the workspace file service (SpecFiles)                    *)
(***************************************************************************)
\* The step is the return of a writeFile call made with a workspace open.
IsWriteReturn == ret'.op = "writeFile" /\ workspace.open

\* The entries of fs2 that fs1 does not hold as they are
ChangedEntries(fs1, fs2) == {p \in DOMAIN fs2 : NodeAt(fs1, p) # fs2[p]}

\* The path that path.resolve gives a relativePath under the workspace root
JoinedPath(relativePath) == normalize(pathResolve(workspace.rootPath, relativePath))

\* C6: writeFile to an existing file with an expected fingerprint other than that
\* of the content on disk fails with HASH_MISMATCH (carrying the path, the
\* expected and the actual fingerprint) and leaves the disk as it was: content
\* unchanged, no backup, no temporary file.
C6_StaleFingerprintRejected ==
  [][IsWriteReturn =>
       LET w == ret'.frame
           abs == resolveInsideWorkspace(disk, workspace.rootPath, w.relativePath, FALSE)
           existing == fsReadFile(disk, abs.path)
       IN  (/\ abs.ok
            /\ existing.ok
            /\ w.expectedSha256 # NoSha
            /\ w.expectedSha256 # sha256(existing.content))
             => /\ ret'.res = Err("HASH_MISMATCH", "",
                                  <<w.relativePath, w.expectedSha256,
                                    sha256(existing.content)>>)
                /\ disk' = disk]_vars

\* A writeFile to the existing file a with a stale fingerprint has been rejected.
C6_Witness ==
  /\ ret.op = "writeFile"
  /\ ret.path = <<"a">>
  /\ ret.res.code = "HASH_MISMATCH"
  /\ ret.frame.hadExistingFile
  /\ ret.frame.expectedSha256 # sha256(ret.frame.existingContent)

\* C8: writeFile with the fingerprint of the content on disk, or with no
\* precondition on a file that does not exist yet, succeeds, and a readFile of
\* the path that follows returns the written content with the hash of that
\* content (for the plain relative paths of the workspace).
C8_MatchingOrNewWriteSucceeds ==
  [][IsWriteReturn =>
       LET w == ret'.frame
           target == Under(workspace.rootPath, w.relativePath)
           matching == /\ NodeAt(disk, target).kind = "file"
                       /\ w.expectedSha256 = sha256(disk[target].content)
           fresh == /\ NodeAt(disk, target).kind = "none"
                    /\ w.expectedSha256 = NoSha
       IN  (w.relativePath \in PlainPaths /\ (matching \/ fresh))
             => /\ ret'.res.ok
                /\ readFile(disk', workspace', w.relativePath)
                     = Ok([content |-> w.content, sha256 |-> sha256(w.content)])]_vars

\* The backup subtree of one write: <root>/.strata-backups/<timestamp>/
BackupTree(rootPath, now) ==
  rootPath \o <<sep, BackupDirName, sep, TsToken(now), sep>>

\* C9: for every relative path that writeFile accepts (with `..` segments or in
\* absolute form too), the backup of the overwritten file is written under
\* <root>/.strata-backups/<timestamp>/: beside the target itself, a successful
\* write creates or changes files only there.
C9_BackupUnderBackupTree ==
  [][(IsWriteReturn /\ ret'.res.ok) =>
       \A p \in ChangedEntries(disk, disk') :
          (disk'[p].kind = "file" /\ p # ret'.frame.absPath)
            => StartsWith(p, BackupTree(workspace.rootPath, clock))]_vars

\* C10: writeFile never creates or replaces a file whose real location is outside
\* the workspace root; a target whose joined path is outside the root, or whose
\* parent directory resolves outside it, is rejected with path-outside-workspace
\* and nothing is written.
C10_NothingWrittenOutsideRoot ==
  [][IsWriteReturn =>
       LET w == ret'.frame
           joined == JoinedPath(w.relativePath)
           parentReal == fsRealpath(disk, pathDirname(joined))
           escapes == \/ ~isWithinRoot(workspace.rootPath, joined)
                      \/ parentReal.ok /\ ~isWithinRoot(workspace.rootPath, parentReal.path)
       IN  /\ \A p \in ChangedEntries(disk, disk') :
                disk'[p].kind = "file" => isWithinRoot(workspace.rootPath, p)
           /\ escapes => /\ ~ret'.res.ok
                         /\ ret'.res.cause = "PATH_OUTSIDE_WORKSPACE"
                         /\ disk' = disk]_vars

(***************************************************************************)
(* Properties of a writeFile call run await by await (SpecWrite)           *)
(***************************************************************************)
\* The target of the writeFile call in progress and the content it brings
WriteTarget == normalize(pathResolve(RootPath, inflight.w.relativePath))
NewNode == FileNode(inflight.w.content)

\* <root>/.strata-backups/
BackupRoot == RootPath \o <<sep, BackupDirName, sep>>

\* The files that fs holds and start does not hold as they are, beside the
\* target and its temporary siblings
FilesProduced(start, fs, target) ==
  {p \in ChangedEntries(start, fs) :
     /\ fs[p].kind = "file"
     /\ p # target
     /\ ~StartsWith(p, target \o <<".strata-tmp-">>)}

\* The step of a call in progress that puts the new content at the target
MakesNewVisible ==
  /\ inflight.busy
  /\ NodeAt(disk, WriteTarget) # NewNode
  /\ NodeAt(disk', WriteTarget) = NewNode

\* C11: a writeFile that overwrites an existing file has, when it returns ok,
\* a backup file holding the prior content under <root>/.strata-backups/ and
\* has produced no other file than that one (one backup copy); the backup is on
\* disk before the step that puts the new content at the target; a writeFile to
\* a path where no file was produces no backup, whatever it returns.
C11_OneBackupBeforeNewContent ==
  [][inflight.busy =>
       LET start == inflight.start
           prior == NodeAt(start, WriteTarget)
           Backups(fs) == {p \in DOMAIN fs : /\ StartsWith(p, BackupRoot)
                                             /\ fs[p] = FileNode(prior.content)}
       IN  /\ (MakesNewVisible /\ prior.kind = "file") => Backups(disk) # {}
           /\ (ret'.op = "writeFileReturn" /\ ret'.res.ok /\ prior.kind = "file")
                => /\ Backups(disk') # {}
                   /\ Cardinality(FilesProduced(start, disk', WriteTarget)) <= 1
                   /\ FilesProduced(start, disk', WriteTarget) \subseteq Backups(disk')
           /\ (ret'.op = "writeFileReturn" /\ prior.kind # "file")
                => FilesProduced(start, disk', WriteTarget) = {}]_vars

IsRunReturn == ret'.op = "runCommand"

\* The child processes that the step spawns
Spawned == DOMAIN shell'.children \ DOMAIN shell.children

\* C13: runCommand with a `confirmed` other than the literal true returns
\* COMMAND_DENIED, for known and unknown proposal ids alike, and changes
\* nothing: no process is spawned, no proposal changes its decision and no run
\* record is stored.
C13_UnconfirmedIsDenied ==
  [][(IsRunReturn /\ ret'.frame.confirmed # "true")
       => /\ ret'.res.code = "COMMAND_DENIED"
          /\ Spawned = {}
          /\ shell' = shell]_vars

\* p is root itself or lies below it
Contains(root, p) == p = root \/ StartsWith(p, root \o <<sep>>)

\* C14: a runCommand for a known proposal spawns a process only if a workspace
\* is open whose root contains the working directory stored with the proposal;
\* when no open root contains it, runCommand returns an error, spawns nothing
\* and leaves the decision of the proposal as it was.
C14_RunsOnlyInsideCurrentRoot ==
  [][(IsRunReturn /\ ret'.changeSetId \in DOMAIN shell.proposals) =>
       LET absCwd == shell.proposals[ret'.changeSetId].absCwd
           inside == workspace.open /\ Contains(workspace.rootPath, absCwd)
       IN  /\ Spawned # {} => inside
           /\ ~inside => /\ ~ret'.res.ok
                         /\ Spawned = {}
                         /\ shell'.proposals = shell.proposals]_vars

\* The proposal made at /w/r was confirmed after the workspace had been replaced
\* by /w/o: PATH_OUTSIDE_WORKSPACE, nothing spawned, the decision still pending.
C14_Witness ==
  /\ ret.op = "runCommand"
  /\ ret.frame.confirmed = "true"
  /\ ret.res.code = "PATH_OUTSIDE_WORKSPACE"
  /\ workspace.rootPath = OutsidePath
  /\ ret.changeSetId \in DOMAIN shell.proposals
  /\ Contains(RootPath, shell.proposals[ret.changeSetId].absCwd)
  /\ shell.proposals[ret.changeSetId].proposal.decision = "pending"
  /\ shell.children = EmptyTable

\* C15: requestCommand never spawns a process; when it returns ok, a workspace is
\* open, the real path of cwd is an existing directory inside the root, and the
\* pending proposal it returns is the one it has recorded; otherwise it returns
\* an error and records nothing, and the error is PATH_OUTSIDE_WORKSPACE when cwd
\* joined to the root is outside the root.
C15_ProposalOnlyForDirectoryInsideRoot ==
  [][ret'.op = "requestCommand" =>
       LET cwd == ret'.path
           joined == pathResolve(workspace.rootPath, cwd)
           real == fsRealpath(disk, joined)
           good == /\ workspace.open
                   /\ real.ok
                   /\ NodeAt(disk, real.path).kind = "dir"
                   /\ Contains(workspace.rootPath, real.path)
       IN  /\ Spawned = {}
           /\ shell'.children = shell.children
           /\ ret'.res.ok
                => /\ good
                   /\ ret'.res.value.decision = "pending"
                   /\ ret'.res.value.cwd = cwd
                   /\ ret'.res.value.id \notin DOMAIN shell.proposals
                   /\ shell' = [shell EXCEPT !.proposals =
                                  WithEntry(@, ret'.res.value.id,
                                            [proposal |-> ret'.res.value,
                                             absCwd |-> real.path])]
           /\ ~ret'.res.ok => shell' = shell
           /\ ~good => ~ret'.res.ok
           /\ (workspace.open /\ ~Contains(workspace.rootPath, joined))
                => ret'.res.code = "PATH_OUTSIDE_WORKSPACE"]_vars

\* requestCommand with the cwd l, a symlink of the workspace to the directory /w/o
\* outside it, has returned PATH_OUTSIDE_WORKSPACE and recorded nothing.
C15_Witness ==
  /\ ret.op = "requestCommand"
  /\ workspace.open
  /\ workspace.rootPath = RootPath
  /\ ret.path = <<"l">>
  /\ ret.res.code = "PATH_OUTSIDE_WORKSPACE"
  /\ shell.proposals = EmptyTable

(***************************************************************************)
(* Properties of the output of a command run (SpecStream)                  *)
(***************************************************************************)
\* What the listeners have received for a run, in order
EventsOf(runId) == IF runId \in DOMAIN shell.events THEN shell.events[runId] ELSE <<>>

\* The chunks of the events of one stream, in the order of the events
ChunksOf(ev, stream) ==
  LET OfStream(e) == e.stream = stream
      sel == SelectSeq(ev, OfStream)
  IN  [i \in 1..Len(sel) |-> sel[i].chunk]

\* The first n chunks that a process writes to a stream
Produced(stream, n) == [i \in 1..n |-> ChunkAt(stream, i)]

\* C19: for every run, the stdout events and the stderr events received by the
\* listeners carry the chunks that node has read from the pipe of the stream,
\* in the order the process wrote them (for a failed spawn, the one error
\* message); a run whose process has closed has exactly one exit event, a run
\* whose process has not closed has none; and the exit event is the last event
\* of its run.
C19_OutputInOrderExitOnceAndLast ==
  \A runId \in DOMAIN shell.children :
     LET child == shell.children[runId]
         ev == EventsOf(runId)
         exits == {i \in 1..Len(ev) : ev[i].stream = "exit"}
     IN  /\ \A i \in 1..Len(ev) : ev[i].runId = runId
         /\ ChunksOf(ev, "stdout")
              = Produced("stdout", child.written.stdout - Len(child.stdout))
         /\ \/ ChunksOf(ev, "stderr")
                 = Produced("stderr", child.written.stderr - Len(child.stderr))
            \/ /\ child.written.stderr = 0
               /\ ChunksOf(ev, "stderr") = << <<"spawn failed">> >>
         /\ Cardinality(exits) = (IF child.state = "closed" THEN 1 ELSE 0)
         /\ exits \subseteq {Len(ev)}

\* A process that wrote two chunks to stdout and one to stderr has closed: the
\* listeners have the three chunks and then the exit event, while a second run
\* of the proposal is still going.
C19_Witness ==
  /\ "run1" \in DOMAIN shell.children
  /\ "run2" \in DOMAIN shell.children
  /\ shell.children["run1"].state = "closed"
  /\ shell.children["run2"].state = "running"
  /\ EventsOf("run2") # <<>>
  /\ Len(EventsOf("run1")) = 4
  /\ ChunksOf(EventsOf("run1"), "stdout") = Produced("stdout", 2)
  /\ EventsOf("run1")[4].stream = "exit"

(***************************************************************************)
(* Properties of isWithinRoot (SpecPaths)                                  *)
(***************************************************************************)
\* C16: isWithinRoot(R, P) is true exactly when the normalised P is the
\* normalised R, or is longer than it, begins with it and has the separator
\* right after it; so it is false for a P that continues the last name of R
\* (root /w/r, candidate /w/r-x).
C16_WithinIffEqualOrBelowSeparator ==
  query.done =>
    LET R == normalize(query.rootPath)
        P == normalize(query.candidatePath)
        below == /\ Len(P) > Len(R)
                 /\ \A i \in 1..Len(R) : P[i] = R[i]
                 /\ P[Len(R) + 1] = sep
    IN  /\ query.result <=> (P = R \/ below)
        /\ (Len(P) > Len(R) /\ SubSeq(P, 1, Len(R)) = R /\ P[Len(R) + 1] # sep)
             => ~query.result

\* isWithinRoot has answered false for the root /w/r and the candidate /w/r-x/a,
\* whose string begins with the string of the root.
C16_Witness ==
  /\ query.done
  /\ query.rootPath = RootPath
  /\ query.candidatePath = <<"/", "w", "/", "r", "-x", "/", "a">>
  /\ ~query.result

(***************************************************************************)
(* Properties of listings, reads and writes under symlinks (SpecTree)      *)
(***************************************************************************)
\* The step is the return of a readFile, listTree or writeFile call made with a
\* workspace open.
IsFileOpReturn == ret'.op \in {"readFile", "listTree", "writeFile"} /\ workspace.open

HasDotDot(relativePath) == \E i \in 1..Len(relativePath) : relativePath[i] = ".."

\* C17: a readFile, listTree or writeFile call with a relative path whose `..`
\* segments lead outside the root, however many of them, fails with the error
\* PATH_OUTSIDE_WORKSPACE that carries the joined path and the root (as the
\* cause of the result of the service), returns no content and leaves the file
\* system as it was.
C17_TraversalRejected ==
  [][(/\ IsFileOpReturn
      /\ ~IsAbsolute(ret'.path)
      /\ HasDotDot(ret'.path)
      /\ ~Contains(workspace.rootPath, JoinedPath(ret'.path)))
       => /\ ~ret'.res.ok
          /\ ret'.res.cause = "PATH_OUTSIDE_WORKSPACE"
          /\ ret'.res.details = <<JoinedPath(ret'.path), workspace.rootPath>>
          /\ ret'.res.value = <<>>
          /\ disk' = disk]_vars

\* writeFile('d/f/../../../o/s', ...) has been rejected with the joined path
\* /w/o/s and the root /w/r, and /w/o/s still holds its content.
C17_Witness ==
  /\ ret.op = "writeFile"
  /\ workspace.open
  /\ ret.path = <<"d", "/", "f", "/", "..", "/", "..", "/", "..", "/", "o", "/", "s">>
  /\ ret.res.cause = "PATH_OUTSIDE_WORKSPACE"
  /\ ret.res.details = <<Under(OutsidePath, <<"s">>), RootPath>>
  /\ NodeAt(disk, Under(OutsidePath, <<"s">>)) = FileNode("old")

RECURSIVE AllNodes(_)
\* The nodes of a listing, those of every depth
AllNodes(nodes) ==
  UNION {{nodes[i]} \cup AllNodes(nodes[i].children) : i \in 1..Len(nodes)}

\* C18: every node of every listTree result, at any depth, is an entry of the
\* workspace whose real path is inside the root (no symlink that resolves
\* outside appears); a readFile or listTree whose path lies inside the root and
\* resolves, through a symlink, to a real path outside it is rejected with
\* PATH_OUTSIDE_WORKSPACE carrying that real path; and the content a readFile
\* returns is that of a file whose real path is inside the root.
C18_EscapingSymlinkInvisibleAndRejected ==
  [][(IsFileOpReturn /\ ret'.op # "writeFile") =>
       \A root \in {workspace.rootPath} :
       \A real \in {fsRealpath(disk, JoinedPath(ret'.path))} :
          /\ (ret'.op = "listTree" /\ ret'.res.ok)
               => \A n \in AllNodes(ret'.res.value) :
                  \A at \in {fsRealpath(disk, Under(root, n.path))} :
                     /\ Under(root, n.path) \in DOMAIN disk
                     /\ disk[Under(root, n.path)].kind # "link"
                     /\ at.ok
                     /\ Contains(root, at.path)
          /\ (Contains(root, JoinedPath(ret'.path)) /\ real.ok /\ ~Contains(root, real.path))
               => /\ ~ret'.res.ok
                  /\ ret'.res.cause = "PATH_OUTSIDE_WORKSPACE"
                  /\ ret'.res.details = <<real.path, root>>
          /\ (ret'.op = "readFile" /\ ret'.res.ok)
               => /\ real.ok
                  /\ Contains(root, real.path)
                  /\ NodeAt(disk, real.path) = FileNode(ret'.res.value.content)]_vars

\* listTree('d', 3) has returned the directory f, expanded and empty, and the file
\* e: the symlinks d/k, d/m and d/f/j are on disk and in no node.
C18_Witness ==
  /\ ret.op = "listTree"
  /\ workspace.open
  /\ ret.path = <<"d">>
  /\ ret.frame.depth = 3
  /\ ret.res.ok
  /\ Len(ret.res.value) = 2
  /\ ret.res.value[1].name = <<"f">>
  /\ ret.res.value[1].expanded
  /\ ret.res.value[1].children = <<>>
  /\ ret.res.value[2].name = <<"e">>
  /\ NodeAt(disk, Under(RootPath, <<"d", "/", "k">>)).kind = "link"
  /\ NodeAt(disk, Under(RootPath, <<"d", "/", "f", "/", "j">>)).kind = "link"

(***************************************************************************)
(* Properties of the services over a failing store (SpecFaults)            *)
(***************************************************************************)
\* The public operations of the workspace, patch and command services
PublicOperations ==
  {"openWorkspace", "listTree", "readFile", "writeFile", "registerChangeSet",
   "applyPatch", "discardChangeSet", "requestCommand", "runCommand"}

\* C20: every call of a public operation returns a tagged result, ok or err with
\* a code of the error taxonomy: no call throws or rejects, whether a file-system
\* call or a call of the store fails inside it.
C20_NoOperationThrows ==
  [][ret'.op \in PublicOperations
       => /\ ret'.res.code # Thrown.code
          /\ ret'.res.ok <=> ret'.res.code = ""]_vars

(***************************************************************************)
(* Properties of discardChangeSet (Spec)                                   *)
(***************************************************************************)
\* C21: discardChangeSet on a pending change set of the live registry sets its
\* status to discarded, removes it from the registry, persists the discarded
\* status and changes no entry of the file system; on an id the registry does
\* not hold it returns the not-found failure and changes nothing.
C21_DiscardResolvesWithoutFileEffect ==
  [][ret'.op = "discardChangeSet" =>
       \A id \in {ret'.changeSetId} :
          /\ (id \in pendingById /\ changeSets[id].status = "pending")
               => /\ ret'.res.ok
                  /\ changeSets'[id].status = "discarded"
                  /\ id \notin pendingById'
                  /\ pendingById' = pendingById \ {id}
                  /\ id \in DOMAIN db'
                  /\ db'[id].status = "discarded"
                  /\ db'[id].payload.status = "discarded"
                  /\ \A x \in DOMAIN db \ {id} : db'[x] = db[x]
                  /\ disk' = disk
          /\ id \notin pendingById
               => /\ ret'.res = ChangeSetNotFound(id)
                  /\ UNCHANGED <<disk, changeSets, pendingById, db>>]_vars

\* A pending change set has been discarded over a workspace that holds files.
C21_Witness ==
  /\ ret.op = "discardChangeSet"
  /\ ret.res.ok
  /\ ret.changeSetId \in DOMAIN db
  /\ db[ret.changeSetId].status = "discarded"
  /\ changeSets[ret.changeSetId].status = "discarded"
  /\ ret.changeSetId \notin pendingById
  /\ NodeAt(disk, Under(RootPath, <<"a">>)).content = "old"

(***************************************************************************)
(* SpecRegistry: the patch engine with two change-set ids and two          *)
(* sessions.  An id may be registered again (by the same or the other      *)
(* session, at the same or a later time) while or after the earlier change *)
(* set of that id is pending.                                              *)
(***************************************************************************)
RegistryIds == {"c1", "c2"}
RegistrySessions == {"s1", "s2"}

InitRegistry == Init /\ Len(proposed) = 1

NextRegistry ==
  \/ Tick
  \/ OpenWorkspace(RootPath)
  \/ \E id \in RegistryIds, sid \in RegistrySessions, f \in StorageFaults :
       RegisterChangeSet(CodeChangeSet(id, sid, clock, proposed), f)
  \/ \E id \in RegistryIds, rnd \in RandTokens, f \in StorageFaults :
       ApplyPatch(id, [given |-> FALSE, files |-> {}], rnd, f)
  \/ \E id \in RegistryIds, f \in StorageFaults : DiscardChangeSet(id, f)
  \/ \E sid \in RegistrySessions : LoadSession(sid)

SpecRegistry == InitRegistry /\ [][NextRegistry]_vars

(***************************************************************************)
(* Properties of session reload and registration (SpecRegistry)            *)
(***************************************************************************)
\* The ids of the change sets of a list
IdsOf(list) == {list[i].id : i \in 1..Len(list)}

\* C22: loadSession(sessionId) returns, once each, exactly the change sets of
\* that session whose persisted status is pending, each as persisted; the keys
\* cacheChangeSets adds to the live registry are the ids of those change sets
\* and no other, so a change set persisted as applied, discarded or failed is
\* neither returned nor inserted.
C22_ReloadRehydratesPendingOnly ==
  [][ret'.op = "loadSession" =>
       \A sid \in {ret'.frame.sessionId} : \A list \in {ret'.res.value} :
          /\ Cardinality(IdsOf(list)) = Len(list)
          /\ IdsOf(list) = {x \in DOMAIN db : db[x].sessionId = sid /\ db[x].status = "pending"}
          /\ \A i \in 1..Len(list) :
                /\ list[i].status = "pending"
                /\ list[i].sessionId = sid
                /\ list[i] = db[list[i].id].payload
                /\ changeSets'[list[i].id] = list[i]
          /\ pendingById' = pendingById \cup IdsOf(list)
          /\ \A x \in DOMAIN db :
                db[x].status \in TerminalStatuses
                  => /\ x \notin IdsOf(list)
                     /\ x \in pendingById' => x \in pendingById
                     /\ changeSets'[x] = changeSets[x]
          /\ UNCHANGED <<db, disk>>]_vars

\* A reload of session s1 has returned its pending change set, newly put into
\* the registry, while the store also holds a resolved change set of s1.
C22_Witness ==
  /\ ret.op = "loadSession"
  /\ ret.frame.sessionId = "s1"
  /\ Len(ret.res.value) = 1
  /\ \E x \in DOMAIN db, y \in DOMAIN db :
        /\ db[x].sessionId = "s1" /\ db[x].status = "pending" /\ x \in pendingById
        /\ ret.res.value[1].id = x
        /\ db[y].sessionId = "s1" /\ db[y].status \in TerminalStatuses
        /\ y \notin pendingById

(***************************************************************************)
(* Properties of applyPatch with an empty selection (Spec)                 *)
(***************************************************************************)
\* The selection selectedFiles = []
EmptySelection == [given |-> TRUE, files |-> {}]

\* C23: applyPatch on a pending change set with selectedFiles = [] writes no
\* file, returns ok with appliedFiles empty and skippedFiles the path of every
\* patch in the order of the patches, and resolves the change set as applied:
\* status applied in memory and in the store, and out of the live registry.
C23_EmptySelectionIsAppliedEmpty ==
  [][(/\ ret'.op = "applyPatch"
      /\ ret'.frame.selectedFiles = EmptySelection
      /\ ret'.changeSetId \in pendingById
      /\ changeSets[ret'.changeSetId].status = "pending")
       => \A id \in {ret'.changeSetId} :
            /\ disk' = disk
            /\ ret'.res.ok
            /\ ret'.res.value.appliedFiles = <<>>
            /\ ret'.res.value.skippedFiles =
                 [i \in 1..Len(changeSets[id].filePatches) |->
                    changeSets[id].filePatches[i].path]
            /\ changeSets'[id].status = "applied"
            /\ id \notin pendingById'
            /\ db'[id].status = "applied"]_vars

\* A change set of several patches has been applied with the empty selection.
C23_Witness ==
  /\ ret.op = "applyPatch"
  /\ ret.frame.selectedFiles = EmptySelection
  /\ ret.res.ok
  /\ Len(ret.res.value.skippedFiles) >= 2
  /\ ret.res.value.appliedFiles = <<>>
  /\ db[ret.changeSetId].status = "applied"

\* The change_sets row that holds a change set
RowOf(cs) ==
  [sessionId |-> cs.sessionId, payload |-> cs, status |-> cs.status,
   createdAt |-> cs.createdAt]

\* C24: registerChangeSet with an id that is already pending overwrites the
\* prior entry: afterwards the registry holds the id once, with the change set
\* just registered, the store holds one row of that id, the row of that change
\* set, entries of other ids are as before, and registering the same change set
\* once more changes nothing.
C24_ReRegistrationOverwrites ==
  [][(/\ ret'.op = "registerChangeSet"
      /\ ret'.changeSetId \in pendingById
      /\ changeSets[ret'.changeSetId].status = "pending")
       => \A cs \in {ret'.frame.changeSet} :
          \A W \in {[disk |-> disk', changeSets |-> changeSets',
                     pendingById |-> pendingById', db |-> db']} :
            /\ ret'.res = Ok(cs)
            /\ cs.id = ret'.changeSetId
            /\ pendingById' = pendingById
            /\ getChangeSet(W, cs.id) = [found |-> TRUE, changeSet |-> cs]
            /\ DOMAIN db' = DOMAIN db \cup {cs.id}
            /\ db'[cs.id] = RowOf(cs)
            /\ \A x \in DOMAIN db \ {cs.id} : db'[x] = db[x]
            /\ \A x \in pendingById \ {cs.id} : changeSets'[x] = changeSets[x]
            /\ disk' = disk
            /\ registerChangeSet(W, cs, FALSE).S = W]_vars

\* An id that was pending has been registered again with another change set
\* (a later creation time and the other session), which replaced the former.
C24_Witness ==
  /\ ret.op = "registerChangeSet"
  /\ ret.changeSetId = "c1"
  /\ ret.frame.changeSet = ret.res.value
  /\ ret.res.value.createdAt = 1
  /\ ret.res.value.sessionId = "s2"
  /\ changeSets["c1"] = ret.res.value
  /\ db["c1"] = RowOf(ret.res.value)
  /\ "c1" \in pendingById
  /\ "c2" \in pendingById
  /\ changeSets["c2"].createdAt = 0

(***************************************************************************)
(* SpecOpen: the services before and after openWorkspace.  The workspace   *)
(* is opened at directories, through a symlink to a directory, at a file   *)
(* and at paths that name nothing, while files are read, listed and        *)
(* written, a command is proposed and a one-patch change set is registered *)
(* and applied.                                                            *)
(***************************************************************************)
OpenPaths ==
  {RootPath,
   OutsidePath,
   Under(RootPath, <<"l">>),
   Under(RootPath, <<"d">>),
   Under(RootPath, <<"a">>),
   Under(RootPath, <<"a", "/", "b">>),
   Under(RootPath, <<"l", "/", "s">>),
   <<"/", "w", "/", "x">>}

InitOpen ==
  /\ disk = FilesDisk
  /\ workspace = NoWorkspace
  /\ clock = 0
  /\ changeSets = EmptyTable
  /\ pendingById = {}
  /\ db = EmptyTable
  /\ proposed = <<[path |-> <<"a">>, newContent |-> NewContentAt(1),
                   expectedSha256 |-> NoSha]>>
  /\ writes = 0
  /\ ret = Ret("none", "", <<>>, Ok(<<>>), NoFrame)
  /\ inflight = NoInflight
  /\ shell = NoShell
  /\ query = NoQuery
  /\ chat = NoChat

NextOpen ==
  \/ \E p \in OpenPaths : OpenWorkspace(p)
  \/ \E rel \in {<<"a">>, <<"s">>} : ReadFile(rel)
  \/ \E depth \in {1, 2} : ListTree(<<".">>, depth)
  \/ \E rel \in {<<"a">>, <<"c">>}, c \in Contents, rnd \in RandTokens :
       WriteFile(rel, c, NoSha, rnd)
  \/ \E sid \in SessionIds, cmd \in Commands : RequestCommand(sid, cmd, <<".">>)
  \/ \E id \in CsIds, sid \in SessionIds, f \in StorageFaults :
       FreshId(id) /\ RegisterChangeSet(CodeChangeSet(id, sid, clock, proposed), f)
  \/ \E id \in CsIds, rnd \in RandTokens, f \in StorageFaults :
       \E sel \in {[given |-> FALSE, files |-> {}], EmptySelection} :
          ApplyPatch(id, sel, rnd, f)

SpecOpen == InitOpen /\ [][NextOpen]_vars

(***************************************************************************)
(* Properties of openWorkspace (SpecOpen)                                  *)
(***************************************************************************)
\* C25: openWorkspace of a path that names an existing directory (through
\* symlinks or not) returns ok and makes the real path of that directory the
\* one current root, whatever root was open before; openWorkspace of a path
\* that names a file or nothing fails with INVALID_INPUT and leaves the current
\* root, or the absence of one, as it was.  No call changes the file system.
C25_OpenReplacesRootOrLeavesIt ==
  [][ret'.op = "openWorkspace" =>
       \A w \in {Walk(disk, ret'.path, TRUE)} :
          /\ disk' = disk
          /\ (w.st = "ok" /\ w.kind = "dir")
               => /\ ret'.res.ok
                  /\ ret'.res.value = Render(w.at)
                  /\ workspace' = WorkspaceMeta(Render(w.at))
                  /\ NodeAt(disk, workspace'.rootPath).kind = "dir"
          /\ ~(w.st = "ok" /\ w.kind = "dir")
               => /\ ~ret'.res.ok
                  /\ ret'.res.code = "INVALID_INPUT"
                  /\ workspace' = workspace]_vars

\* With /w/r open, the workspace has been opened through the symlink /w/r/l: the
\* root is now /w/o, the real path of the link's target.
C25_Witness ==
  /\ ret.op = "openWorkspace"
  /\ ret.path = Under(RootPath, <<"l">>)
  /\ ret.res.ok
  /\ workspace = WorkspaceMeta(OutsidePath)
  /\ \E id \in DOMAIN shell.proposals : shell.proposals[id].absCwd = RootPath

(***************************************************************************)
(* SpecIgnored: listings of a workspace that holds directories with the    *)
(* ignored names, at the root and below d, while files are overwritten.    *)
(***************************************************************************)
IgnoredDisk ==
  Put(Put(Put(Put(Put(Put(Put(FilesDisk,
                              Under(RootPath, <<".git">>), DirNode),
                          Under(RootPath, <<".git", "/", "c">>), FileNode("old")),
                      Under(RootPath, <<"node_modules">>), DirNode),
                  Under(RootPath, <<"dist-electron">>), DirNode),
              Under(RootPath, <<"d", "/", "dist">>), DirNode),
          Under(RootPath, <<"d", "/", "release">>), DirNode),
      Under(RootPath, <<"d", "/", "e">>), FileNode("old"))

InitIgnored ==
  /\ disk = IgnoredDisk
  /\ workspace = NoWorkspace
  /\ clock = 0
  /\ changeSets = EmptyTable
  /\ pendingById = {}
  /\ db = EmptyTable
  /\ proposed = <<>>
  /\ writes = 0
  /\ ret = Ret("none", "", <<>>, Ok(<<>>), NoFrame)
  /\ inflight = NoInflight
  /\ shell = NoShell
  /\ query = NoQuery
  /\ chat = NoChat

NextIgnored ==
  \/ Tick
  \/ OpenWorkspace(RootPath)
  \/ \E rel \in {<<".">>, <<"d">>, <<".git">>}, depth \in 1..MaxDepth : ListTree(rel, depth)
  \/ \E rel \in {<<"a">>, <<"c">>, <<"d", "/", "e">>}, c \in Contents, rnd \in RandTokens :
       WriteFile(rel, c, NoSha, rnd)

SpecIgnored == InitIgnored /\ [][NextIgnored]_vars

(***************************************************************************)
(* Properties of the listing filter (SpecIgnored)                          *)
(***************************************************************************)
\* The names a listing never shows: version-control metadata, dependency
\* caches, build output, and the backup directory of writeFile
IgnoredNames == IGNORED_DIRS \cup {<<BackupDirName>>}

\* C26: no node of a listTree result, at any depth and after any writes, has
\* one of the ignored names .git, node_modules, dist, dist-electron, release
\* or .strata-backups.
C26_NoIgnoredNameListed ==
  [][(ret'.op = "listTree" /\ ret'.res.ok)
       => \A node \in AllNodes(ret'.res.value) : node.name \notin IgnoredNames]_vars

(***************************************************************************)
(* Properties of the listing depth (SpecIgnored)                           *)
(***************************************************************************)
\* How many levels below the listed directory a node lies: the segments of
\* its path (relative to the root) beyond those of the listed directory
LevelOf(node, relativePath) ==
  Len(Segments(node.path)) -
    (IF relativePath = <<".">> THEN 0 ELSE Len(Segments(relativePath)))

RECURSIVE NestedWithin(_, _)
\* The nodes are nested at most d levels deep: a directory with remaining
\* depth 1 has no children, one with more has the children field
NestedWithin(nodes, d) ==
  \A i \in 1..Len(nodes) :
     IF d <= 1 THEN ~nodes[i].expanded /\ nodes[i].children = <<>>
     ELSE /\ nodes[i].expanded <=> nodes[i].type = "directory"
          /\ NestedWithin(nodes[i].children, d - 1)

\* C27: a listTree(path, depth) result is nested at most depth levels below the
\* listed directory: a directory reached with remaining depth 1 is a node
\* without children, a directory reached with more is expanded, and every node
\* lies between 1 and depth levels below the listed directory.
C27_ListingStopsAtDepth ==
  [][(ret'.op = "listTree" /\ ret'.res.ok)
       => /\ ret'.frame.depth >= 1
          /\ NestedWithin(ret'.res.value, ret'.frame.depth)
          /\ \A node \in AllNodes(ret'.res.value) :
                /\ LevelOf(node, ret'.path) \in 1..ret'.frame.depth
                /\ (node.type = "directory" /\ LevelOf(node, ret'.path) = ret'.frame.depth)
                     => node.children = <<>>]_vars

\* A listing of the root with depth 2 shows the backup directory and, below it,
\* the directory of one backup, not expanded, although it holds a file.
C27_Witness ==
  /\ ret.op = "listTree"
  /\ ret.res.ok
  /\ ret.frame.depth = 2
  /\ ret.path = <<".">>
  /\ \E node \in AllNodes(ret.res.value) :
        /\ node.type = "directory"
        /\ LevelOf(node, ret.path) = 2
        /\ node.children = <<>>
        /\ \E p \in DOMAIN disk :
              /\ StartsWith(p, Under(RootPath, node.path) \o <<sep>>)
              /\ disk[p].kind = "file"

(***************************************************************************)
(* SpecContext: readFilesForContext, one awaited readFile at a time, while *)
(* the workspace is opened, a file is overwritten and the user removes a   *)
(* file.                                                                   *)
(***************************************************************************)
MaxContextFiles == 3

\* The paths of a batch: a file, a file that may be missing, a path that leaves
\* the root through `..` and one that leaves it through the symlink l
ContextPaths ==
  {<<"a">>, <<"c">>, <<"..", "/", "o", "/", "s">>, <<"l", "/", "s">>}

ContextLists ==
  UNION {[1..n -> ContextPaths] : n \in 0..MaxContextFiles}

\* AIService.executeTurn -> WorkspaceService.readFilesForContext: the call
ReadFilesForContextCall(relativePaths) ==
  /\ ~inflight.busy
  /\ inflight' = rfcCall(relativePaths)
  /\ ret' = Ret("readFilesForContextCall", "", <<>>, Ok(<<>>), inflight')
  /\ UNCHANGED <<disk, workspace, clock, changeSets, pendingById, db, proposed, writes,
                 shell, query, chat>>

\* The call runs one turn of its loop.
ReadFilesForContextStep ==
  /\ inflight.busy
  /\ inflight.i <= Len(inflight.relativePaths)
  /\ inflight' = rfcStep(disk, workspace, inflight)
  /\ ret' = Ret("readFilesForContextStep", "", inflight.relativePaths[inflight.i],
                readFile(disk, workspace, inflight.relativePaths[inflight.i]), inflight')
  /\ UNCHANGED <<disk, workspace, clock, changeSets, pendingById, db, proposed, writes,
                 shell, query, chat>>

\* The loop is over: return out
ReadFilesForContextReturn ==
  /\ inflight.busy
  /\ inflight.i > Len(inflight.relativePaths)
  /\ inflight' = NoInflight
  /\ ret' = Ret("readFilesForContext", "", <<>>, Ok(inflight.out), inflight)
  /\ UNCHANGED <<disk, workspace, clock, changeSets, pendingById, db, proposed, writes,
                 shell, query, chat>>

NextContext ==
  \/ OpenWorkspace(RootPath)
  \/ \E relativePaths \in ContextLists : ReadFilesForContextCall(relativePaths)
  \/ ReadFilesForContextStep
  \/ ReadFilesForContextReturn
  \/ \E rel \in {<<"a">>, <<"c">>}, c \in Contents, rnd \in RandTokens :
       WriteFile(rel, c, NoSha, rnd)
  \/ EnvRemove(Under(RootPath, <<"a">>))

SpecContext == InitFiles /\ [][NextContext]_vars

(***************************************************************************)
(* Properties of readFilesForContext (SpecContext)                         *)
(***************************************************************************)
\* The file a relative path names inside the open root, when there is one: the
\* workspace is open, the path stays inside the root as written and as
\* resolved, and names a file.
ReadableNow(relativePath) ==
  /\ workspace.open
  /\ isWithinRoot(workspace.rootPath, pathResolve(workspace.rootPath, relativePath))
  /\ \A w \in {Walk(disk, pathResolve(workspace.rootPath, relativePath), TRUE)} :
        /\ w.st = "ok"
        /\ w.kind = "file"
        /\ isWithinRoot(workspace.rootPath, Render(w.at))

ContentNow(relativePath) ==
  disk[Render(Walk(disk, pathResolve(workspace.rootPath, relativePath), TRUE).at)].content

RECURSIVE IsSubsequence(_, _)
\* a is b with some entries left out
IsSubsequence(a, b) ==
  IF a = <<>> THEN TRUE
  ELSE IF b = <<>> THEN FALSE
  ELSE IF Head(a) = Head(b) THEN IsSubsequence(Tail(a), Tail(b))
  ELSE IsSubsequence(a, Tail(b))

\* C28: readFilesForContext never fails.  Each turn of its loop adds to the
\* result, at its end, the entry (path, content, fingerprint of the content) of
\* the path at hand exactly when that path can be read at that moment (an open
\* workspace, a path inside the root that names a file), and adds nothing
\* otherwise; the call returns ok with the entries added, whose paths are the
\* input paths in input order with the unreadable ones left out.
C28_ContextReadSkipsFailures ==
  [][ /\ ret'.op = "readFilesForContextStep"
          => \A relativePath \in {inflight.relativePaths[inflight.i]} :
               /\ inflight'.i = inflight.i + 1
               /\ ReadableNow(relativePath) <=> ret'.res.ok
               /\ IF ReadableNow(relativePath)
                    THEN inflight'.out =
                           Append(inflight.out,
                                  [path |-> relativePath,
                                   content |-> ContentNow(relativePath),
                                   sha256 |-> sha256(ContentNow(relativePath))])
                    ELSE inflight'.out = inflight.out
      /\ ret'.op = "readFilesForContext"
          => /\ ret'.res = Ok(inflight.out)
             /\ IsSubsequence([i \in 1..Len(inflight.out) |-> inflight.out[i].path],
                              inflight.relativePaths)
             /\ \A i \in 1..Len(inflight.out) :
                   inflight.out[i].sha256 = sha256(inflight.out[i].content)
      /\ ret'.op \in {"readFilesForContextCall", "readFilesForContextStep",
                      "readFilesForContext"}
          => UNCHANGED <<disk, workspace>>]_vars

\* A batch of three paths has returned two entries: the file a was read before
\* and after it was overwritten, and the path between them was skipped.
C28_Witness ==
  /\ ret.op = "readFilesForContext"
  /\ Len(ret.frame.relativePaths) = 3
  /\ ret.frame.relativePaths[2] # <<"a">>
  /\ Len(ret.res.value) = 2
  /\ ret.res.value[1].path = <<"a">>
  /\ ret.res.value[2].path = <<"a">>
  /\ ret.res.value[1].content = "old"
  /\ ret.res.value[2].content = "new"

(***************************************************************************)
(* Properties of the calls made with no workspace open (SpecOpen)          *)
(***************************************************************************)
\* The error requireRoot throws, as the cause a service attaches to its result
NotOpenCause == "WORKSPACE_NOT_OPEN"

\* C29: while no workspace is open, listTree, readFile and writeFile fail with
\* the workspace-not-open error attached to the failure they return, and
\* requestCommand fails with WORKSPACE_NOT_OPEN; an applyPatch that reaches a
\* writeFile fails with PATCH_APPLY_FAILED carrying that write failure.  None of
\* these calls changes the file system, resolves a path or records a proposal.
C29_NoWorkspaceNoAccess ==
  [][~workspace.open =>
       /\ ret'.op \in {"listTree", "readFile", "writeFile"}
            => /\ ~ret'.res.ok
               /\ ret'.res.cause = NotOpenCause
               /\ ret'.res.value = <<>>
       /\ ret'.op = "listTree" => ret'.res.code = "INTERNAL_ERROR"
       /\ ret'.op = "readFile" => ret'.res.code = "FILE_NOT_FOUND"
       /\ ret'.op = "writeFile"
            => /\ ret'.res.code = "INTERNAL_ERROR"
               /\ ret'.frame.absPath = <<>>
               /\ ret'.frame.tmpPath = <<>>
       /\ ret'.op = "requestCommand"
            => /\ ~ret'.res.ok
               /\ ret'.res.code = NotOpenCause
       /\ (/\ ret'.op = "applyPatch"
           /\ ret'.frame.found
           /\ PatchPathsOf(changeSets[ret'.changeSetId]) \cap ret'.frame.selectedSet # {})
            => /\ ~ret'.res.ok
               /\ ret'.res.code = "PATCH_APPLY_FAILED"
               /\ ret'.res.details.cause = NotOpenCause
               /\ ret'.frame.appliedFiles = <<>>
       /\ ret'.op \in {"listTree", "readFile", "writeFile", "requestCommand", "applyPatch"}
            => /\ disk' = disk
               /\ shell' = shell
               /\ workspace' = workspace]_vars

\* With no workspace opened yet, an applyPatch of a registered change set has
\* failed at its first write.
C29_Witness ==
  /\ ~workspace.open
  /\ ret.op = "applyPatch"
  /\ ret.frame.found
  /\ ret.res.code = "PATCH_APPLY_FAILED"
  /\ ret.res.details.cause = NotOpenCause
  /\ ret.frame.skippedFiles = <<<<"a">>>>
  /\ disk = FilesDisk
  /\ shell = NoShell

(***************************************************************************)
(* The IPC layer: validation of the renderer's payloads (shared/validation *)
(* and main/ipc).  A JavaScript value is its type and its text: a string   *)
(* is a sequence of tokens (of characters, for the API key), a number its  *)
(* digits, a boolean its word, an array of strings its items (NotAString   *)
(* stands for an item of another type).  A payload is an object with the   *)
(* fields f, where a field that is JsUndefined is absent, or it is missing.*)
(***************************************************************************)
JsString(tokens) == [t |-> "string", v |-> tokens]
JsNumber(digits) == [t |-> "number", v |-> <<digits>>]
JsBoolean(word) == [t |-> "boolean", v |-> <<word>>]
JsArray(items) == [t |-> "array", v |-> items]
JsUndefined == [t |-> "undefined", v |-> <<>>]
NotAString == "#7"
NulChar == "\\u0000"

JsObject(f) == [kind |-> "object", f |-> f]
JsMissing(f) == [kind |-> "undefined", f |-> [k \in DOMAIN f |-> JsUndefined]]

\* The value of a number, in tenths
Tenths(digits) ==
  CASE digits = "0" -> 0
    [] digits = "0.2" -> 2
    [] digits = "1" -> 10
    [] digits = "1.5" -> 15
    [] digits = "2" -> 20
    [] digits = "2.5" -> 25
    [] digits = "3" -> 30
    [] digits = "30" -> 300
    [] digits = "31" -> 310

\* The text of a one-token string, as the services of the model take it
Atom(x) == IF x.v = <<>> THEN "" ELSE x.v[1]

\* z.string(), z.string().min(n)
zString(x) == x.t = "string"
zStringMin(x, n) == x.t = "string" /\ Len(x.v) >= n

\* relPathSchema
relPathSchema(x) ==
  /\ zStringMin(x, 1)
  /\ \A i \in 1..Len(x.v) : x.v[i] # NulChar

\* z.number().int().min(lo).max(hi) and z.number().min(lo).max(hi)
zNumber(x, lo, hi) ==
  /\ x.t = "number"
  /\ Tenths(x.v[1]) >= 10 * lo
  /\ Tenths(x.v[1]) <= 10 * hi
zInt(x, lo, hi) == zNumber(x, lo, hi) /\ Tenths(x.v[1]) % 10 = 0

\* z.boolean(), z.literal(true) and the check `value is truthy`
zBoolean(x) == x.t = "boolean"
zTruthy(x) == x \notin {JsUndefined, JsBoolean("false"), JsString(<<>>), JsNumber("0")}
zLiteralTrue(x) == x = JsBoolean("true")

\* z.array(z.string())
zArrayOfString(x) ==
  /\ x.t = "array"
  /\ \A i \in 1..Len(x.v) : x.v[i] # NotAString

\* .optional()
zAbsent(x) == x.t = "undefined"

\* z.object({...}) applied to the payload
zObject(input) == input.kind = "object"

openWorkspaceInputSchema(input) ==
  zObject(input) /\ zStringMin(input.f.path, 1)

listTreeInputSchema(input) ==
  /\ zObject(input)
  /\ zAbsent(input.f.path) \/ zString(input.f.path)
  /\ zAbsent(input.f.depth) \/ zInt(input.f.depth, 1, 8)

\* The defaults of listTreeInputSchema
listTreeDefaults(f) ==
  [path |-> IF zAbsent(f.path) THEN <<".">> ELSE f.path.v,
   depth |-> IF zAbsent(f.depth) THEN 3 ELSE Tenths(f.depth.v[1]) \div 10]

readFileInputSchema(input) ==
  zObject(input) /\ relPathSchema(input.f.path)

writeFileInputSchema(input) ==
  /\ zObject(input)
  /\ relPathSchema(input.f.path)
  /\ zString(input.f.content)
  /\ zAbsent(input.f.expectedSha256) \/ zString(input.f.expectedSha256)

chatTurnInputSchema(input) ==
  /\ zObject(input)
  /\ zStringMin(input.f.sessionId, 1)
  /\ zStringMin(input.f.prompt, 1)
  /\ zAbsent(input.f.activeFilePath) \/ zString(input.f.activeFilePath)
  /\ zArrayOfString(input.f.selectedFilePaths)
  /\ zInt(input.f.maxContextFiles, 1, 30)

applyPatchInputSchema(input) ==
  /\ zObject(input)
  /\ zStringMin(input.f.changeSetId, 1)
  /\ zAbsent(input.f.selectedFiles) \/ zArrayOfString(input.f.selectedFiles)

discardPatchInputSchema(input) ==
  zObject(input) /\ zStringMin(input.f.changeSetId, 1)

requestCommandInputSchema(input) ==
  /\ zObject(input)
  /\ zStringMin(input.f.sessionId, 1)
  /\ zStringMin(input.f.command, 1)
  /\ zStringMin(input.f.cwd, 1)

runCommandInputSchemaTruthy(input) ==
  /\ zObject(input)
  /\ zStringMin(input.f.proposalId, 1)
  /\ zTruthy(input.f.confirmed)

runCommandInputSchema(input) ==
  /\ zObject(input)
  /\ zStringMin(input.f.proposalId, 1)
  /\ zLiteralTrue(input.f.confirmed)

setKeyInputSchema(input) ==
  zObject(input) /\ zStringMin(input.f.key, 10)

updateSettingsInputSchema(input) ==
  /\ zObject(input)
  /\ zAbsent(input.f.model) \/ zString(input.f.model)
  /\ zAbsent(input.f.temperature) \/ zNumber(input.f.temperature, 0, 2)
  /\ zAbsent(input.f.maxContextFiles) \/ zInt(input.f.maxContextFiles, 1, 30)
  /\ zAbsent(input.f.requireCommandConfirmation)
       \/ zBoolean(input.f.requireCommandConfirmation)
  /\ zAbsent(input.f.requirePatchConfirmation)
       \/ zBoolean(input.f.requirePatchConfirmation)

loadSessionInputSchema(input) ==
  /\ zObject(input)
  /\ zAbsent(input.f.sessionId) \/ zStringMin(input.f.sessionId, 1)

\* validate(schema, input): parsed.success stands for schema.safeParse(input)
validate(success, data) ==
  IF ~success THEN Err("INVALID_INPUT", "", <<>>) ELSE Ok(data)

\* payload ?? {}
OrEmptyObject(payload) == IF payload.kind = "undefined" THEN JsObject(payload.f) ELSE payload

\* The file patch objects a previewPatch payload names: a well-formed one and
\* one whose path is empty
FilePatchObject(item) ==
  [path |-> IF item = "noPath" THEN JsString(<<>>) ELSE JsString(<<"a">>),
   originalContent |-> JsString(<<"old">>),
   newContent |-> JsString(<<"new">>),
   expectedSha256 |-> JsUndefined]

previewPatchInputSchema(input) ==
  /\ zObject(input)
  /\ input.f.filePatches.t = "array"
  /\ \A i \in 1..Len(input.f.filePatches.v) :
       /\ input.f.filePatches.v[i] # NotAString
       /\ \A o \in {FilePatchObject(input.f.filePatches.v[i])} :
            /\ zStringMin(o.path, 1)
            /\ zString(o.originalContent)
            /\ zString(o.newContent)
            /\ zAbsent(o.expectedSha256) \/ zString(o.expectedSha256)

\* PatchService.previewPatch; createPatch of the diff library is left
\* uninterpreted
previewPatch(filePatches) ==
  Ok([files |->
        [i \in 1..Len(filePatches) |->
           [path |-> filePatches[i].path.v,
            originalContent |-> Atom(filePatches[i].originalContent),
            newContent |-> Atom(filePatches[i].newContent),
            unifiedDiff |-> <<"createPatch", filePatches[i].path.v,
                              Atom(filePatches[i].originalContent),
                              Atom(filePatches[i].newContent)>>]]])

\* SettingsService.setOpenAIKey: keytar.setPassword stores the key or throws
setOpenAIKey(ch, key, keychainFails) ==
  IF keychainFails
  THEN [chat |-> ch, res |-> Err("INTERNAL_ERROR", "INTERNAL_ERROR", <<>>)]
  ELSE [chat |-> [ch EXCEPT !.openAIKey = key], res |-> Ok(<<>>)]

\* SettingsService.updateSettings -> DatabaseService.updateSettings
updateSettings(ch, partial) ==
  LET merged == [k \in DOMAIN ch.settings |->
                   IF zAbsent(partial[k]) THEN ch.settings[k] ELSE partial[k]]
  IN  [chat |-> [ch EXCEPT !.settings = merged], res |-> Ok(merged)]

\* uuidv4(): the n-th turn id and message id drawn
MaxTurns == 2
TurnIdAt(n) == <<"t1", "t2", "t3", "t4">>[n]
MessageIdAt(n) == <<"m1", "m2", "m3", "m4", "m5", "m6", "m7", "m8">>[n]

\* AIService.startChatTurn: executeTurn runs up to its first await, where the
\* user's message is saved, and the turn id is returned
startChatTurn(ch, turnId, messageId, now, input) ==
  [chat |-> [ch EXCEPT
               !.turns = Append(@, [turnId |-> turnId, input |-> input]),
               !.messages = Append(@, [id |-> messageId,
                                       sessionId |-> Atom(input.sessionId),
                                       role |-> "user",
                                       content |-> Atom(input.prompt),
                                       createdAt |-> now]),
               !.lastSessionId = Atom(input.sessionId)],
   res |-> Ok([turnId |-> turnId])]

\* What a handler returns: the channel, the payload it was sent, whether it
\* called its service, and the result
IpcRet(channel, payload, served, res) ==
  Ret(channel, "", <<>>, res, [pc |-> "none", payload |-> payload, served |-> served])

\* if (!parsed.ok) return parsed
IpcReject(channel, payload, parsed) ==
  /\ ~parsed.ok
  /\ ret' = IpcRet(channel, payload, FALSE, parsed)
  /\ UNCHANGED <<disk, workspace, clock, changeSets, pendingById, db, proposed, writes,
                 inflight, shell, query, chat>>

IpcOpenWorkspace(payload) ==
  \E parsed \in {validate(openWorkspaceInputSchema(payload), payload.f)} :
     \/ IpcReject("ipc.openWorkspace", payload, parsed)
     \/ /\ parsed.ok
        /\ \E r \in {openWorkspace(disk, workspace, parsed.value.path.v)} :
             /\ workspace' = r.workspace
             /\ ret' = IpcRet("ipc.openWorkspace", payload, TRUE, r.res)
        /\ UNCHANGED <<disk, clock, changeSets, pendingById, db, proposed, writes,
                       inflight, shell, query, chat>>

IpcListTree(payload) ==
  \E parsed \in {validate(listTreeInputSchema(OrEmptyObject(payload)),
                          listTreeDefaults(payload.f))} :
     \/ IpcReject("ipc.listTree", payload, parsed)
     \/ /\ parsed.ok
        /\ ret' = IpcRet("ipc.listTree", payload, TRUE,
                         listTree(disk, workspace, parsed.value.path, parsed.value.depth))
        /\ UNCHANGED <<disk, workspace, clock, changeSets, pendingById, db, proposed, writes,
                 inflight, shell, query, chat>>

IpcReadFile(payload) ==
  \E parsed \in {validate(readFileInputSchema(payload), payload.f)} :
     \/ IpcReject("ipc.readFile", payload, parsed)
     \/ /\ parsed.ok
        /\ ret' = IpcRet("ipc.readFile", payload, TRUE,
                         readFile(disk, workspace, parsed.value.path.v))
        /\ UNCHANGED <<disk, workspace, clock, changeSets, pendingById, db, proposed, writes,
                 inflight, shell, query, chat>>

IpcWriteFile(payload, rnd) ==
  \E parsed \in {validate(writeFileInputSchema(payload), payload.f)} :
     \/ IpcReject("ipc.writeFile", payload, parsed)
     \/ /\ parsed.ok
        /\ \E r \in {writeFile(disk, workspace, clock, rnd, parsed.value.path.v,
                               Atom(parsed.value.content),
                               parsed.value.expectedSha256.v)} :
             /\ disk' = r.fs
             /\ ret' = IpcRet("ipc.writeFile", payload, TRUE, r.res)
        /\ UNCHANGED <<workspace, clock, changeSets, pendingById, db, proposed, writes,
                       inflight, shell, query, chat>>

IpcStartChatTurn(payload) ==
  \E parsed \in {validate(chatTurnInputSchema(payload), payload.f)} :
     \/ IpcReject("ipc.startChatTurn", payload, parsed)
     \/ /\ parsed.ok
        /\ Len(chat.turns) < MaxTurns
        /\ \E r \in {startChatTurn(chat, TurnIdAt(Len(chat.turns) + 1),
                                   MessageIdAt(Len(chat.messages) + 1), clock,
                                   parsed.value)} :
             /\ chat' = r.chat
             /\ ret' = IpcRet("ipc.startChatTurn", payload, TRUE, r.res)
        /\ UNCHANGED <<disk, workspace, clock, changeSets, pendingById, db, proposed,
                       writes, inflight, shell, query>>

IpcPreviewPatch(payload) ==
  \E parsed \in {validate(previewPatchInputSchema(payload), payload.f)} :
     \/ IpcReject("ipc.previewPatch", payload, parsed)
     \/ /\ parsed.ok
        /\ ret' = IpcRet("ipc.previewPatch", payload, TRUE,
                         previewPatch([i \in 1..Len(parsed.value.filePatches.v) |->
                                         FilePatchObject(parsed.value.filePatches.v[i])]))
        /\ UNCHANGED <<disk, workspace, clock, changeSets, pendingById, db, proposed, writes,
                 inflight, shell, query, chat>>

\* selectedFiles as PatchService takes it: absent, or the set of its paths
SelectionOf(x) ==
  IF zAbsent(x) THEN [given |-> FALSE, files |-> {}]
  ELSE [given |-> TRUE, files |-> {<<x.v[i]>> : i \in 1..Len(x.v)}]

IpcApplyPatch(payload, rnd, dbFails) ==
  \E parsed \in {validate(applyPatchInputSchema(payload), payload.f)} :
     \/ IpcReject("ipc.applyPatch", payload, parsed)
     \/ /\ parsed.ok
        /\ \E r \in {applyPatch(World, workspace, clock, rnd,
                                Atom(parsed.value.changeSetId),
                                SelectionOf(parsed.value.selectedFiles), dbFails)} :
             /\ SetWorld(r.S)
             /\ ret' = IpcRet("ipc.applyPatch", payload, TRUE, r.a.res)
        /\ UNCHANGED <<workspace, clock, proposed, writes, inflight, shell, query, chat>>

IpcDiscardChangeSet(payload, dbFails) ==
  \E parsed \in {validate(discardPatchInputSchema(payload), payload.f)} :
     \/ IpcReject("ipc.discardChangeSet", payload, parsed)
     \/ /\ parsed.ok
        /\ \E r \in {discardChangeSet(World, Atom(parsed.value.changeSetId), dbFails)} :
             /\ SetWorld(r.S)
             /\ ret' = IpcRet("ipc.discardChangeSet", payload, TRUE, r.res)
        /\ UNCHANGED <<workspace, clock, proposed, writes, inflight, shell, query, chat>>

IpcRequestCommand(payload) ==
  \E parsed \in {validate(requestCommandInputSchema(payload), payload.f)} :
     \/ IpcReject("ipc.requestCommand", payload, parsed)
     \/ /\ parsed.ok
        /\ Cardinality(DOMAIN shell.proposals) < MaxProposals
        /\ \E r \in {requestCommand(shell, disk, workspace,
                                    ProposalIdAt(Cardinality(DOMAIN shell.proposals) + 1),
                                    clock, Atom(parsed.value.sessionId),
                                    Atom(parsed.value.command), parsed.value.cwd.v)} :
             /\ shell' = r.sh
             /\ ret' = IpcRet("ipc.requestCommand", payload, TRUE, r.res)
        /\ UNCHANGED <<disk, workspace, clock, changeSets, pendingById, db, proposed,
                       writes, inflight, query, chat>>

IpcRunCommand(payload, outcome, dbFails) ==
  \E parsed \in {validate(runCommandInputSchema(payload), payload.f)} :
     \/ IpcReject("ipc.runCommand", payload, parsed)
     \/ /\ parsed.ok
        /\ Cardinality(DOMAIN shell.commandRuns) < MaxRuns
        /\ \E r \in {runCommand(shell, workspace,
                                RunIdAt(Cardinality(DOMAIN shell.commandRuns) + 1), clock,
                                Atom(parsed.value.proposalId),
                                Atom(parsed.value.confirmed), outcome, dbFails)} :
             /\ shell' = r.sh
             /\ ret' = IpcRet("ipc.runCommand", payload, TRUE, r.res)
        /\ UNCHANGED <<disk, workspace, clock, changeSets, pendingById, db, proposed,
                       writes, inflight, query, chat>>

IpcSetOpenAIKey(payload, keychainFails) ==
  \E parsed \in {validate(setKeyInputSchema(payload), payload.f)} :
     \/ IpcReject("ipc.setOpenAIKey", payload, parsed)
     \/ /\ parsed.ok
        /\ \E r \in {setOpenAIKey(chat, parsed.value.key.v, keychainFails)} :
             /\ chat' = r.chat
             /\ ret' = IpcRet("ipc.setOpenAIKey", payload, TRUE, r.res)
        /\ UNCHANGED <<disk, workspace, clock, changeSets, pendingById, db, proposed,
                       writes, inflight, shell, query>>

IpcUpdateSettings(payload) ==
  \E parsed \in {validate(updateSettingsInputSchema(payload), payload.f)} :
     \/ IpcReject("ipc.updateSettings", payload, parsed)
     \/ /\ parsed.ok
        /\ \E r \in {updateSettings(chat, parsed.value)} :
             /\ chat' = r.chat
             /\ ret' = IpcRet("ipc.updateSettings", payload, TRUE, r.res)
        /\ UNCHANGED <<disk, workspace, clock, changeSets, pendingById, db, proposed,
                       writes, inflight, shell, query>>

\* sessionId ?? database.getLastSessionId() ?? uuidv4()
FreshSessionId == "s-fresh"
SessionIdOf(ch, x) ==
  IF ~zAbsent(x) THEN Atom(x)
  ELSE IF ch.lastSessionId # "" THEN ch.lastSessionId ELSE FreshSessionId

IpcLoadSession(payload) ==
  \E parsed \in {validate(loadSessionInputSchema(OrEmptyObject(payload)), payload.f)} :
     \/ IpcReject("ipc.loadSession", payload, parsed)
     \/ /\ parsed.ok
        /\ \E pendingChangeSets \in
               {listPendingChangeSets(db, SessionIdOf(chat, parsed.value.sessionId))} :
             /\ SetWorld(cacheChangeSets(World, pendingChangeSets))
             /\ ret' = IpcRet("ipc.loadSession", payload, TRUE, Ok(pendingChangeSets))
        /\ UNCHANGED <<workspace, clock, proposed, writes, inflight, shell, query, chat>>

(***************************************************************************)
(* SpecIpc: the renderer sends payloads over every channel that takes one. *)
(* Each channel gets a well-formed payload, that payload with one field    *)
(* changed (absent, of another type, empty, out of range) and no payload   *)
(* at all, while an agent turn registers a one-patch change set.           *)
(***************************************************************************)
Variants(base, field, values) == {JsObject([base EXCEPT ![field] = x]) : x \in values}

OpenWorkspaceBase == [path |-> JsString(RootPath)]
OpenWorkspacePayloads ==
  {JsObject(OpenWorkspaceBase), JsMissing(OpenWorkspaceBase)}
    \cup Variants(OpenWorkspaceBase, "path", {JsString(<<>>)})

ListTreeBase == [path |-> JsString(<<".">>), depth |-> JsNumber("1")]
ListTreePayloads ==
  {JsObject(ListTreeBase), JsMissing(ListTreeBase)}
    \cup Variants(ListTreeBase, "depth", {JsNumber("0"), JsNumber("1.5"), JsNumber("30")})

ReadFileBase == [path |-> JsString(<<"a">>)]
ReadFilePayloads ==
  {JsObject(ReadFileBase), JsMissing(ReadFileBase)}
    \cup Variants(ReadFileBase, "path", {JsString(<<"a", NulChar>>)})

WriteFileBase ==
  [path |-> JsString(<<"a">>), content |-> JsString(<<"new">>), expectedSha256 |-> JsUndefined]
WriteFilePayloads ==
  {JsObject(WriteFileBase), JsMissing(WriteFileBase)}
    \cup Variants(WriteFileBase, "path", {JsString(<<>>)})
    \cup Variants(WriteFileBase, "content", {JsNumber("1")})

ChatTurnBase ==
  [sessionId |-> JsString(<<"s1">>), prompt |-> JsString(<<"hi">>),
   activeFilePath |-> JsUndefined, selectedFilePaths |-> JsArray(<<"a">>),
   maxContextFiles |-> JsNumber("30")]
\* The payload of the test `rejects malformed chat turn payload`
ChatTurnMalformed ==
  [sessionId |-> JsString(<<>>), prompt |-> JsString(<<>>),
   activeFilePath |-> JsUndefined, selectedFilePaths |-> JsArray(<<>>),
   maxContextFiles |-> JsNumber("0")]
ChatTurnPayloads ==
  {JsObject(ChatTurnBase), JsMissing(ChatTurnBase), JsObject(ChatTurnMalformed)}
    \cup Variants(ChatTurnBase, "sessionId", {JsString(<<>>)})
    \cup Variants(ChatTurnBase, "prompt", {JsString(<<>>)})
    \cup Variants(ChatTurnBase, "selectedFilePaths", {JsArray(<<"a", NotAString>>)})
    \cup Variants(ChatTurnBase, "maxContextFiles",
                  {JsUndefined, JsNumber("0"), JsNumber("1.5"), JsNumber("31")})

PreviewPatchBase == [filePatches |-> JsArray(<<"patch">>)]
PreviewPatchPayloads ==
  {JsObject(PreviewPatchBase), JsMissing(PreviewPatchBase)}
    \cup Variants(PreviewPatchBase, "filePatches", {JsArray(<<"patch", "noPath">>)})

ApplyPatchBase == [changeSetId |-> JsString(<<"c1">>), selectedFiles |-> JsUndefined]
ApplyPatchPayloads ==
  {JsObject(ApplyPatchBase), JsMissing(ApplyPatchBase)}
    \cup Variants(ApplyPatchBase, "changeSetId", {JsString(<<>>)})
    \cup Variants(ApplyPatchBase, "selectedFiles", {JsNumber("1")})

DiscardPatchBase == [changeSetId |-> JsString(<<"c1">>)]
DiscardPatchPayloads ==
  {JsObject(DiscardPatchBase), JsMissing(DiscardPatchBase)}
    \cup Variants(DiscardPatchBase, "changeSetId", {JsString(<<>>)})

RequestCommandBase ==
  [sessionId |-> JsString(<<"s1">>), command |-> JsString(<<"cmd">>),
   cwd |-> JsString(<<".">>)]
RequestCommandPayloads ==
  {JsObject(RequestCommandBase), JsMissing(RequestCommandBase)}
    \cup Variants(RequestCommandBase, "command", {JsString(<<>>)})
    \cup Variants(RequestCommandBase, "cwd", {JsNumber("1")})

RunCommandBase == [proposalId |-> JsString(<<"p1">>), confirmed |-> JsBoolean("true")]
RunCommandPayloads ==
  {JsObject(RunCommandBase), JsMissing(RunCommandBase)}
    \cup Variants(RunCommandBase, "proposalId", {JsString(<<>>)})
    \cup Variants(RunCommandBase, "confirmed",
                  {JsUndefined, JsBoolean("false"), JsString(<<"yes">>)})

\* An API key of ten characters
KeyOfTen == <<"s", "k", "-", "0", "1", "2", "3", "4", "5", "6">>
SetKeyBase == [key |-> JsString(KeyOfTen)]
SetKeyPayloads ==
  {JsObject(SetKeyBase), JsMissing(SetKeyBase)}
    \cup Variants(SetKeyBase, "key", {JsString(SubSeq(KeyOfTen, 1, 9))})

UpdateSettingsBase ==
  [model |-> JsUndefined, temperature |-> JsNumber("2"), maxContextFiles |-> JsUndefined,
   requireCommandConfirmation |-> JsUndefined, requirePatchConfirmation |-> JsUndefined]
UpdateSettingsPayloads ==
  {JsObject(UpdateSettingsBase), JsMissing(UpdateSettingsBase)}
    \cup Variants(UpdateSettingsBase, "model", {JsNumber("1")})
    \cup Variants(UpdateSettingsBase, "temperature", {JsNumber("2.5")})
    \cup Variants(UpdateSettingsBase, "maxContextFiles", {JsNumber("0")})
    \cup Variants(UpdateSettingsBase, "requireCommandConfirmation", {JsString(<<"true">>)})

LoadSessionBase == [sessionId |-> JsString(<<"s1">>)]
LoadSessionPayloads ==
  {JsObject(LoadSessionBase), JsMissing(LoadSessionBase)}
    \cup Variants(LoadSessionBase, "sessionId", {JsString(<<>>)})

NextIpc ==
  \/ \E id \in CsIds, sid \in SessionIds, f \in StorageFaults :
       FreshId(id) /\ RegisterChangeSet(CodeChangeSet(id, sid, clock, proposed), f)
  \/ \E payload \in OpenWorkspacePayloads : IpcOpenWorkspace(payload)
  \/ \E payload \in ListTreePayloads : IpcListTree(payload)
  \/ \E payload \in ReadFilePayloads : IpcReadFile(payload)
  \/ \E payload \in WriteFilePayloads, rnd \in RandTokens : IpcWriteFile(payload, rnd)
  \/ \E payload \in ChatTurnPayloads : IpcStartChatTurn(payload)
  \/ \E payload \in PreviewPatchPayloads : IpcPreviewPatch(payload)
  \/ \E payload \in ApplyPatchPayloads, rnd \in RandTokens, f \in StorageFaults :
       IpcApplyPatch(payload, rnd, f)
  \/ \E payload \in DiscardPatchPayloads, f \in StorageFaults :
       IpcDiscardChangeSet(payload, f)
  \/ \E payload \in RequestCommandPayloads : IpcRequestCommand(payload)
  \/ \E payload \in RunCommandPayloads, outcome \in {"spawned"}, f \in StorageFaults :
       IpcRunCommand(payload, outcome, f)
  \/ \E payload \in SetKeyPayloads, keychainFails \in BOOLEAN :
       IpcSetOpenAIKey(payload, keychainFails)
  \/ \E payload \in UpdateSettingsPayloads : IpcUpdateSettings(payload)
  \/ \E payload \in LoadSessionPayloads : IpcLoadSession(payload)

SpecIpc == InitOpen /\ [][NextIpc]_vars

(***************************************************************************)
(* Properties of the IPC layer (SpecIpc)                                   *)
(***************************************************************************)
IpcChannels ==
  {"ipc.openWorkspace", "ipc.listTree", "ipc.readFile", "ipc.writeFile",
   "ipc.startChatTurn", "ipc.previewPatch", "ipc.applyPatch", "ipc.discardChangeSet",
   "ipc.requestCommand", "ipc.runCommand", "ipc.setOpenAIKey", "ipc.updateSettings",
   "ipc.loadSession"}

\* What a channel declares of a field: its kind, whether it may be absent, the
\* least length of a string, the range of a number
Field(kind, optional, least, most) ==
  [kind |-> kind, optional |-> optional, least |-> least, most |-> most]

Declared(channel) ==
  CASE channel = "ipc.openWorkspace" -> [path |-> Field("string", FALSE, 1, 0)]
    [] channel = "ipc.listTree" ->
         [path |-> Field("string", TRUE, 0, 0), depth |-> Field("integer", TRUE, 1, 8)]
    [] channel = "ipc.readFile" -> [path |-> Field("path", FALSE, 1, 0)]
    [] channel = "ipc.writeFile" ->
         [path |-> Field("path", FALSE, 1, 0), content |-> Field("string", FALSE, 0, 0),
          expectedSha256 |-> Field("string", TRUE, 0, 0)]
    [] channel = "ipc.startChatTurn" ->
         [sessionId |-> Field("string", FALSE, 1, 0),
          prompt |-> Field("string", FALSE, 1, 0),
          activeFilePath |-> Field("string", TRUE, 0, 0),
          selectedFilePaths |-> Field("strings", FALSE, 0, 0),
          maxContextFiles |-> Field("integer", FALSE, 1, 30)]
    [] channel = "ipc.previewPatch" -> [filePatches |-> Field("patches", FALSE, 0, 0)]
    [] channel = "ipc.applyPatch" ->
         [changeSetId |-> Field("string", FALSE, 1, 0),
          selectedFiles |-> Field("strings", TRUE, 0, 0)]
    [] channel = "ipc.discardChangeSet" -> [changeSetId |-> Field("string", FALSE, 1, 0)]
    [] channel = "ipc.requestCommand" ->
         [sessionId |-> Field("string", FALSE, 1, 0),
          command |-> Field("string", FALSE, 1, 0),
          cwd |-> Field("string", FALSE, 1, 0)]
    [] channel = "ipc.runCommand" ->
         [proposalId |-> Field("string", FALSE, 1, 0),
          confirmed |-> Field("true", FALSE, 0, 0)]
    [] channel = "ipc.setOpenAIKey" -> [key |-> Field("string", FALSE, 10, 0)]
    [] channel = "ipc.updateSettings" ->
         [model |-> Field("string", TRUE, 0, 0),
          temperature |-> Field("number", TRUE, 0, 2),
          maxContextFiles |-> Field("integer", TRUE, 1, 30),
          requireCommandConfirmation |-> Field("boolean", TRUE, 0, 0),
          requirePatchConfirmation |-> Field("boolean", TRUE, 0, 0)]
    [] channel = "ipc.loadSession" -> [sessionId |-> Field("string", TRUE, 1, 0)]

\* The channels whose handler reads a missing payload as the empty object
PayloadOptional == {"ipc.listTree", "ipc.loadSession"}

InRange(x, d) ==
  /\ x.t = "number"
  /\ 10 * d.least <= Tenths(x.v[1])
  /\ Tenths(x.v[1]) <= 10 * d.most

Conforms(x, d) ==
  \/ d.optional /\ x = JsUndefined
  \/ /\ d.kind \in {"string", "path"}
     /\ x.t = "string"
     /\ Len(x.v) >= d.least
     /\ d.kind = "path" => ~\E i \in 1..Len(x.v) : x.v[i] = NulChar
  \/ d.kind = "number" /\ InRange(x, d)
  \/ d.kind = "integer" /\ InRange(x, d) /\ Tenths(x.v[1]) \in {10 * n : n \in d.least..d.most}
  \/ d.kind = "boolean" /\ x \in {JsBoolean("true"), JsBoolean("false")}
  \/ d.kind = "true" /\ x = JsBoolean("true")
  \/ d.kind = "strings" /\ x.t = "array" /\ ~\E i \in 1..Len(x.v) : x.v[i] = NotAString
  \/ /\ d.kind = "patches"
     /\ x.t = "array"
     /\ \A i \in 1..Len(x.v) : x.v[i] \notin {NotAString, "noPath"}

PassesValidation(channel, payload) ==
  /\ payload.kind = "object" \/ channel \in PayloadOptional
  /\ \A k \in DOMAIN Declared(channel) : Conforms(payload.f[k], Declared(channel)[k])

\* C30: a handler that takes a payload calls its service only with a payload
\* that passes the schema its channel declares; for a payload that fails it
\* (an empty session id or prompt, maxContextFiles 0, confirmed that is not
\* the literal true, a missing payload) it returns INVALID_INPUT, calls no
\* service and changes nothing.
C30_InvalidPayloadRejectedUnserved ==
  [][ ret'.op \in IpcChannels =>
        /\ ret'.frame.served => PassesValidation(ret'.op, ret'.frame.payload)
        /\ ~PassesValidation(ret'.op, ret'.frame.payload) =>
             /\ ~ret'.res.ok
             /\ ret'.res.code = "INVALID_INPUT"
             /\ ~ret'.frame.served
             /\ UNCHANGED <<disk, workspace, clock, changeSets, pendingById, db,
                            proposed, writes, inflight, shell, query, chat>> ]_vars

\* A run-command payload for the stored proposal whose confirmed is the string
\* 'yes' was rejected while the proposal waited, and so was the chat payload of
\* the validation test, after a chat turn had been started.
C30_Witness ==
  \/ /\ ret.op = "ipc.runCommand"
     /\ ret.frame.payload = JsObject([RunCommandBase EXCEPT !.confirmed = JsString(<<"yes">>)])
     /\ ret.res.code = "INVALID_INPUT"
     /\ "p1" \in DOMAIN shell.proposals
     /\ shell.children = EmptyTable
     /\ Len(chat.turns) = 1
  \/ /\ ret.op = "ipc.startChatTurn"
     /\ ret.frame.payload = JsObject(ChatTurnMalformed)
     /\ ret.res.code = "INVALID_INPUT"
     /\ Len(chat.turns) = 1
     /\ "p1" \in DOMAIN shell.proposals

(***************************************************************************)
(* The GPU runtime policy (main/services/gpuRuntimePolicy).  A string is   *)
(* the sequence of its characters; an environment variable is unset or     *)
(* holds a string.                                                         *)
(***************************************************************************)
EnvUnset == [set |-> FALSE, chars |-> <<>>]
EnvValue(chars) == [set |-> TRUE, chars |-> chars]

\* String.prototype.toLowerCase, on the characters of the model
LowerChar(c) ==
  CASE c = "T" -> "t"
    [] c = "R" -> "r"
    [] c = "U" -> "u"
    [] c = "E" -> "e"
    [] OTHER -> c
toLowerCase(chars) == [i \in 1..Len(chars) |-> LowerChar(chars[i])]

\* String.prototype.trim: white space is removed at both ends
WhiteSpace == {" ", "\t", "\n"}
RECURSIVE trimStart(_)
trimStart(chars) ==
  IF chars # <<>> /\ Head(chars) \in WhiteSpace THEN trimStart(Tail(chars)) ELSE chars
RECURSIVE trimEnd(_)
trimEnd(chars) ==
  IF chars # <<>> /\ chars[Len(chars)] \in WhiteSpace
  THEN trimEnd(SubSeq(chars, 1, Len(chars) - 1))
  ELSE chars
trim(chars) == trimEnd(trimStart(chars))

isTruthyEnvFlagCaseSensitive(value) ==
  IF ~value.set \/ value.chars = <<>> THEN FALSE
  ELSE trim(value.chars) \in {<<"1">>, <<"t", "r", "u", "e">>}

isTruthyEnvFlag(value) ==
  IF ~value.set \/ value.chars = <<>> THEN FALSE
  ELSE \E normalized \in {toLowerCase(trim(value.chars))} :
          normalized = <<"1">> \/ normalized = <<"t", "r", "u", "e">>

shouldDisableGpuAcceleration(platform, env) ==
  IF isTruthyEnvFlag(env.STRATA_ENABLE_GPU) THEN FALSE
  ELSE IF isTruthyEnvFlag(env.STRATA_DISABLE_GPU) THEN TRUE
  ELSE platform = "linux"

\* An Electron app on which nothing has been called, and applyGpuRuntimePolicy
NoAppCalls == [disableHardwareAcceleration |-> 0, switches |-> <<>>]
applyGpuRuntimePolicy(electronApp, platform, env) ==
  IF ~shouldDisableGpuAcceleration(platform, env) THEN electronApp
  ELSE [disableHardwareAcceleration |-> electronApp.disableHardwareAcceleration + 1,
        switches |-> Append(electronApp.switches, "disable-gpu")]

(***************************************************************************)
(* SpecGpu: the policy as a function of the platform and of the two        *)
(* environment variables, each unset or one of EnvTexts.                   *)
(***************************************************************************)
Platforms == {"linux", "darwin", "win32"}
EnvTexts ==
  {<<>>, <<"1">>, <<"0">>, <<"1", "1">>,
   <<"t", "r", "u", "e">>, <<"T", "R", "U", "E">>, <<"T", "r", "u", "e">>,
   <<"f", "a", "l", "s", "e">>, <<"y", "e", "s">>,
   <<" ", "1">>, <<"1", "\n">>, <<" ", "T", "R", "U", "E", " ">>,
   <<"t", " ", "r", "u", "e">>, <<" ", " ">>}
EnvValues == {EnvUnset} \cup {EnvValue(chars) : chars \in EnvTexts}

InitGpu ==
  /\ disk = FilesDisk
  /\ workspace = NoWorkspace
  /\ clock = 0
  /\ changeSets = EmptyTable
  /\ pendingById = {}
  /\ db = EmptyTable
  /\ proposed = <<>>
  /\ writes = 0
  /\ ret = Ret("none", "", <<>>, Ok(<<>>), NoFrame)
  /\ inflight = NoInflight
  /\ shell = NoShell
  /\ query \in {[fn |-> "gpuRuntimePolicy", platform |-> p,
                 env |-> [STRATA_ENABLE_GPU |-> e, STRATA_DISABLE_GPU |-> d],
                 asked |-> FALSE, result |-> FALSE,
                 applied |-> FALSE, electronApp |-> NoAppCalls] :
                  p \in Platforms, e \in EnvValues, d \in EnvValues}
  /\ chat = NoChat

ShouldDisableGpuAccelerationCall ==
  /\ query.fn = "gpuRuntimePolicy"
  /\ ~query.asked
  /\ query' = [query EXCEPT !.asked = TRUE,
                            !.result = shouldDisableGpuAcceleration(query.platform, query.env)]
  /\ ret' = Ret("shouldDisableGpuAcceleration", "", <<>>, Ok(<<>>), NoFrame)
  /\ UNCHANGED <<disk, workspace, clock, changeSets, pendingById, db, proposed, writes,
                 inflight, shell, chat>>

\* main: applyGpuRuntimePolicy(app, process.platform, process.env), once at start
ApplyGpuRuntimePolicyCall ==
  /\ query.fn = "gpuRuntimePolicy"
  /\ ~query.applied
  /\ query' = [query EXCEPT !.applied = TRUE,
                            !.electronApp = applyGpuRuntimePolicy(query.electronApp,
                                                                  query.platform, query.env)]
  /\ ret' = Ret("applyGpuRuntimePolicy", "", <<>>, Ok(<<>>), NoFrame)
  /\ UNCHANGED <<disk, workspace, clock, changeSets, pendingById, db, proposed, writes,
                 inflight, shell, chat>>

NextGpu == ShouldDisableGpuAccelerationCall \/ ApplyGpuRuntimePolicyCall

SpecGpu == InitGpu /\ [][NextGpu]_vars

(***************************************************************************)
(* Properties of the GPU runtime policy (SpecGpu)                          *)
(***************************************************************************)
\* The text is '1' or 'true' in any letter case
IsOneOrTrue(chars) ==
  \/ chars = <<"1">>
  \/ /\ Len(chars) = 4
     /\ chars[1] \in {"t", "T"}
     /\ chars[2] \in {"r", "R"}
     /\ chars[3] \in {"u", "U"}
     /\ chars[4] \in {"e", "E"}

\* The variable is set to '1' or 'true' in any letter case
FlagSetExactly(value) == value.set /\ IsOneOrTrue(value.chars)

\* The variable is set to '1' or 'true' in any letter case, with any white
\* space before and after it
FlagSetPadded(value) ==
  /\ value.set
  /\ \E i \in 1..Len(value.chars), j \in 1..Len(value.chars) :
       /\ i <= j
       /\ \A k \in 1..(i - 1) : value.chars[k] \in WhiteSpace
       /\ \A k \in (j + 1)..Len(value.chars) : value.chars[k] \in WhiteSpace
       /\ IsOneOrTrue(SubSeq(value.chars, i, j))

\* The decision table over a reading of `the variable is on`, and what the
\* app has been asked to do
DecisionTable(enableOn, disableOn) ==
  /\ query.asked =>
       (query.result <=> (~enableOn /\ (disableOn \/ query.platform = "linux")))
  /\ query.applied =>
       IF ~enableOn /\ (disableOn \/ query.platform = "linux")
       THEN /\ query.electronApp.disableHardwareAcceleration = 1
            /\ query.electronApp.switches = <<"disable-gpu">>
       ELSE query.electronApp = NoAppCalls

\* C31 as stated: shouldDisableGpuAcceleration is false whenever
\* STRATA_ENABLE_GPU is '1' or 'true' in any letter case, else true when
\* STRATA_DISABLE_GPU is, else true exactly on linux; applyGpuRuntimePolicy
\* disables hardware acceleration and appends disable-gpu iff it is true.
C31_TableOverExactText ==
  DecisionTable(FlagSetExactly(query.env.STRATA_ENABLE_GPU),
                FlagSetExactly(query.env.STRATA_DISABLE_GPU))

\* C31, amended: the same decision table, where a variable is on when its
\* value, with the white space around it removed, is '1' or 'true' in any
\* letter case.
C31_TableOverTrimmedText ==
  DecisionTable(FlagSetPadded(query.env.STRATA_ENABLE_GPU),
                FlagSetPadded(query.env.STRATA_DISABLE_GPU))

\* On linux with STRATA_ENABLE_GPU ' TRUE ' and STRATA_DISABLE_GPU 'true' the
\* answer was false and nothing was called on the app.
C31_Witness ==
  /\ query.fn = "gpuRuntimePolicy"
  /\ query.asked
  /\ query.applied
  /\ query.platform = "linux"
  /\ query.env.STRATA_ENABLE_GPU = EnvValue(<<" ", "T", "R", "U", "E", " ">>)
  /\ query.env.STRATA_DISABLE_GPU = EnvValue(<<"t", "r", "u", "e">>)
  /\ ~query.result
  /\ query.electronApp = NoAppCalls

(***************************************************************************)
(* Calls that overlap in time.  The main process runs one piece of code at *)
(* a time, from one await to the next; a call that waits at an await is a  *)
(* frame in a slot of `inflight`, and the calls in the slots take their    *)
(* steps in any order.  A slot holds one call and is not used again, so    *)
(* that the results of the calls can be compared when all have returned.   *)
(***************************************************************************)
Slots == {1, 2}
IdleCall == [op |-> "idle", returned |-> FALSE]
NoCalls == [busy |-> FALSE, calls |-> [k \in Slots |-> IdleCall]]

\* Math.random() of the call in slot k
RandAt(k) == <<"r1", "r2">>[k]

(***************************************************************************)
(* SpecRace: two writeFile calls for the file a of the open workspace, one *)
(* await at a time, each with or without the fingerprint of the content    *)
(* the file had at the start.                                              *)
(***************************************************************************)
InitRace ==
  /\ disk = FilesDisk
  /\ workspace = NoWorkspace
  /\ clock = 0
  /\ changeSets = EmptyTable
  /\ pendingById = {}
  /\ db = EmptyTable
  /\ proposed = <<>>
  /\ writes = 0
  /\ ret = Ret("none", "", <<>>, Ok(<<>>), NoFrame)
  /\ inflight = NoCalls
  /\ shell = NoShell
  /\ query = NoQuery
  /\ chat = NoChat

\* ipc writeFile -> WorkspaceService.writeFile: the call in slot k is made and
\* runs to its first await
ConcurrentWriteFileCall(k, relativePath, content, expectedSha256) ==
  /\ inflight.calls[k].op = "idle"
  /\ \E w \in {wfCall(workspace, relativePath, content, expectedSha256)} :
       /\ inflight' = [inflight EXCEPT !.calls[k] =
                         [op |-> "writeFile", returned |-> FALSE, w |-> w]]
       /\ ret' = Ret("writeFileCall", "", relativePath, w.res, [pc |-> w.pc, slot |-> k])
  /\ UNCHANGED <<disk, workspace, clock, changeSets, pendingById, db, proposed, writes,
                 shell, query, chat>>

\* The await at which the call in slot k waits completes
ConcurrentWriteFileStep(k) ==
  /\ inflight.calls[k].op = "writeFile"
  /\ inflight.calls[k].w.pc # "done"
  /\ \E s \in {wfStep(disk, clock, RandAt(k), inflight.calls[k].w)} :
       /\ disk' = s.fs
       /\ inflight' = [inflight EXCEPT !.calls[k].w = s.w]
       /\ ret' = Ret("writeFileStep", "", s.w.relativePath, s.w.res,
                     [pc |-> inflight.calls[k].w.pc, slot |-> k])
  /\ UNCHANGED <<workspace, clock, changeSets, pendingById, db, proposed, writes,
                 shell, query, chat>>

\* The call in slot k returns its result
ConcurrentWriteFileReturn(k) ==
  /\ inflight.calls[k].op = "writeFile"
  /\ inflight.calls[k].w.pc = "done"
  /\ ~inflight.calls[k].returned
  /\ inflight' = [inflight EXCEPT !.calls[k].returned = TRUE]
  /\ ret' = Ret("writeFileReturn", "", inflight.calls[k].w.relativePath,
                inflight.calls[k].w.res, [pc |-> "done", slot |-> k])
  /\ UNCHANGED <<disk, workspace, clock, changeSets, pendingById, db, proposed, writes,
                 shell, query, chat>>

NextRace ==
  \/ Tick
  \/ OpenWorkspace(RootPath)
  \/ \E k \in Slots, e \in ExpectedChoices :
       ConcurrentWriteFileCall(k, <<"a">>, NewContentAt(k), e)
  \/ \E k \in Slots : ConcurrentWriteFileStep(k)
  \/ \E k \in Slots : ConcurrentWriteFileReturn(k)

SpecRace == InitRace /\ [][NextRace]_vars

(***************************************************************************)
(* Properties of overlapping writeFile calls (SpecRace)                    *)
(***************************************************************************)
\* The call in slot k has presented the fingerprint of the original content of a
GuardedCall(c) ==
  /\ c.op = "writeFile"
  /\ c.w.relativePath = <<"a">>
  /\ c.w.expectedSha256 = sha256("old")

\* C32: of two writeFile calls on the existing file a that both carry the
\* fingerprint of its original content, at most one succeeds, in whatever
\* order their awaits complete; and no rename of a call that presented a
\* fingerprint replaces content with another fingerprint.
C32_GuardHoldsUnderInterleaving ==
  [][ /\ (\A k \in Slots : GuardedCall(inflight'.calls[k]) /\ inflight'.calls[k].returned)
          => \E k \in Slots : ~inflight'.calls[k].w.res.ok
      /\ \A k \in Slots :
           (/\ ret'.op = "writeFileStep"
            /\ ret'.frame.slot = k
            /\ ret'.frame.pc = "rename"
            /\ disk' # disk
            /\ inflight.calls[k].w.expectedSha256 # NoSha
            /\ fsReadFile(disk, inflight.calls[k].w.absPath).ok)
             => sha256(fsReadFile(disk, inflight.calls[k].w.absPath).content)
                  = inflight.calls[k].w.expectedSha256 ]_vars

(***************************************************************************)
(* Properties of writeFile below directories that do not exist (SpecFiles) *)
(***************************************************************************)
\* C33: writeFile of a new file inside the root succeeds whether the parent
\* directory of the file exists already or not, and leaves the parent
\* directory and the file with the written content on disk.
C33_MissingParentsAreCreated ==
  [][IsWriteReturn =>
       LET w == ret'.frame
           target == Under(workspace.rootPath, w.relativePath)
           parent == pathDirname(target)
       IN  (/\ w.relativePath \in PlainPaths
            /\ NodeAt(disk, target).kind = "none"
            /\ NodeAt(disk, parent).kind \in {"none", "dir"})
             => /\ ret'.res.ok
                /\ NodeAt(disk', parent).kind = "dir"
                /\ NodeAt(disk', target) = FileNode(w.content)]_vars

(***************************************************************************)
(* applyPatch as a call that overlaps other calls.  It runs from the call  *)
(* to its first await of writeFile, whose frame w took the root at that    *)
(* moment (requireRoot); when the last await of that writeFile completes,  *)
(* applyPatch runs on to the next writeFile it awaits, or to its return.   *)
(***************************************************************************)
NoWrite == [pc |-> "none"]

\* The code of applyPatch from the head of the loop to the next await or return
RECURSIVE apToAwait(_, _, _, _)
apToAwait(S, ws, a, dbFails) ==
  LET changeSet == S.changeSets[a.changeSetId]
  IN  IF a.i > Len(changeSet.filePatches)
        THEN The({[S |-> f.S, a |-> f.a, w |-> NoWrite] : f \in {apFinish(S, a, dbFails)}})
      ELSE LET filePatch == changeSet.filePatches[a.i]
           IN  IF filePatch.path \notin a.selectedSet
                 THEN apToAwait(S, ws,
                                [a EXCEPT !.i = a.i + 1,
                                          !.skippedFiles = Append(a.skippedFiles, filePatch.path)],
                                dbFails)
               ELSE The({
                      IF w.pc = "done"
                        THEN The({[S |-> f.S, a |-> f.a, w |-> w] :
                                    f \in {apWriteFailed(S, a, filePatch, w.res, dbFails)}})
                        ELSE [S |-> S, a |-> [a EXCEPT !.pc = "write"], w |-> w] :
                      w \in {wfCall(ws, filePatch.path, filePatch.newContent,
                                    filePatch.expectedSha256)}})

\* applyPatch(changeSetId, selectedFiles): from the call to the first await
apStart(S, ws, changeSetId, selectedFiles, dbFails) ==
  The({IF a.found THEN apToAwait(S, ws, a, dbFails) ELSE [S |-> S, a |-> a, w |-> NoWrite] :
         a \in {apCall(S, changeSetId, selectedFiles)}})

\* const writeResult = await ...: the writeFile awaited has returned
apAfterWrite(S, ws, a, w, dbFails) ==
  LET filePatch == S.changeSets[a.changeSetId].filePatches[a.i]
  IN  IF ~w.res.ok
        THEN The({[S |-> f.S, a |-> f.a, w |-> w] :
                    f \in {apWriteFailed(S, a, filePatch, w.res, dbFails)}})
        ELSE apToAwait(S, ws,
                       [a EXCEPT !.i = a.i + 1,
                                 !.appliedFiles = Append(a.appliedFiles, filePatch.path)],
                       dbFails)

\* An await of the writeFile that applyPatch awaits completes
apAwaitStep(S, ws, now, rnd, a, w, dbFails) ==
  The({IF s.w.pc = "done"
         THEN apAfterWrite([S EXCEPT !.disk = s.fs], ws, a, s.w, dbFails)
         ELSE [S |-> [S EXCEPT !.disk = s.fs], a |-> a, w |-> s.w] :
       s \in {wfStep(S.disk, now, rnd, w)}})

(***************************************************************************)
(* SpecOverlap: a change set of two patches is registered while /w/r is    *)
(* the open workspace; applyPatch is called twice for it, the awaits of    *)
(* the two calls complete in any order, and in between the change set is   *)
(* discarded and the workspace /w/o is opened.                             *)
(***************************************************************************)
OverlapDisk == Put(FilesDisk, Under(RootPath, <<"b">>), FileNode("old"))

OverlapPatchLists ==
  {<<[path |-> <<"a">>, newContent |-> NewContentAt(1), expectedSha256 |-> NoSha],
     [path |-> <<"b">>, newContent |-> NewContentAt(2), expectedSha256 |-> sha256("old")]>>,
   <<[path |-> <<"b">>, newContent |-> NewContentAt(1), expectedSha256 |-> sha256("old")]>>}

InitOverlap ==
  /\ disk = OverlapDisk
  /\ workspace = NoWorkspace
  /\ clock = 0
  /\ changeSets = EmptyTable
  /\ pendingById = {}
  /\ db = EmptyTable
  /\ proposed \in OverlapPatchLists
  /\ writes = 0
  /\ ret = Ret("none", "", <<>>, Ok(<<>>), NoFrame)
  /\ inflight = NoCalls
  /\ shell = NoShell
  /\ query = NoQuery
  /\ chat = NoChat

\* What an applyPatch call leaves in ret: the slot of the call, whether it
\* has returned, and the writeFile await that completed in the step
ApplyRet(k, changeSetId, r, awaited) ==
  Ret(IF r.a.pc = "done" THEN "applyPatch" ELSE "applyPatchStep", changeSetId, <<>>,
      r.a.res, [pc |-> r.a.pc, slot |-> k, awaited |-> awaited])

\* The applyPatch calls that have been made and have not returned
CallsInFlight ==
  {j \in Slots : inflight.calls[j].op = "applyPatch" /\ ~inflight.calls[j].returned}

\* ipc applyPatch -> PatchService.applyPatch: the call in slot k; the frame
\* records the calls that were in flight when it was made
ConcurrentApplyPatchCall(k, changeSetId, selectedFiles, dbFails) ==
  /\ inflight.calls[k].op = "idle"
  /\ \E r \in {apStart(World, workspace, changeSetId, selectedFiles, dbFails)} :
       /\ SetWorld(r.S)
       /\ inflight' = [inflight EXCEPT !.calls[k] =
                         [op |-> "applyPatch", returned |-> r.a.pc = "done",
                          a |-> r.a, w |-> r.w, during |-> CallsInFlight]]
       /\ ret' = ApplyRet(k, changeSetId, r, NoWrite)
  /\ UNCHANGED <<workspace, clock, proposed, writes, shell, query, chat>>

\* An await of the call in slot k completes
ConcurrentApplyPatchStep(k, dbFails) ==
  /\ inflight.calls[k].op = "applyPatch"
  /\ inflight.calls[k].a.pc = "write"
  /\ \E r \in {apAwaitStep(World, workspace, clock, RandAt(k), inflight.calls[k].a,
                           inflight.calls[k].w, dbFails)} :
       /\ SetWorld(r.S)
       /\ inflight' = [inflight EXCEPT !.calls[k].a = r.a, !.calls[k].w = r.w,
                                       !.calls[k].returned = r.a.pc = "done"]
       /\ ret' = ApplyRet(k, inflight.calls[k].a.changeSetId, r, inflight.calls[k].w)
  /\ UNCHANGED <<workspace, clock, proposed, writes, shell, query, chat>>

\* The agent turn registers its change set while /w/r is the open workspace
RegisterInRoot(changeSet, dbFails) ==
  /\ workspace.open
  /\ workspace.rootPath = RootPath
  /\ RegisterChangeSet(changeSet, dbFails)

NextOverlap ==
  \/ \E p \in {RootPath, OutsidePath} : OpenWorkspace(p)
  \/ \E id \in CsIds, sid \in SessionIds, f \in StorageFaults :
       FreshId(id) /\ RegisterInRoot(CodeChangeSet(id, sid, clock, proposed), f)
  \/ \E k \in Slots, id \in CsIds, f \in StorageFaults :
       ConcurrentApplyPatchCall(k, id, [given |-> FALSE, files |-> {}], f)
  \/ \E k \in Slots, f \in StorageFaults : ConcurrentApplyPatchStep(k, f)
  \/ \E id \in CsIds, f \in StorageFaults : DiscardChangeSet(id, f)

SpecOverlap == InitOverlap /\ [][NextOverlap]_vars

(***************************************************************************)
(* Properties of overlapping patch calls (SpecOverlap)                     *)
(***************************************************************************)
\* The step is taken by an applyPatch call for the change set id
IsApplyStepFor(id) ==
  /\ ret'.op \in {"applyPatch", "applyPatchStep"}
  /\ ret'.changeSetId = id

\* The files the patches of a change set name, under either workspace
PatchTargets(id) ==
  {Under(root, path) : root \in {RootPath, OutsidePath},
                       path \in PatchPathsOf(changeSets[id])}

\* C34: once a change set is discarded (discardChangeSet has returned
\* success), it stays discarded and no step of an applyPatch call for it,
\* in flight since before the discard, replaces a file that a patch of it
\* names.
C34_DiscardStopsInFlightApply ==
  [][\A id \in DOMAIN changeSets :
       changeSets[id].status = "discarded" =>
         /\ changeSets'[id].status = "discarded"
         /\ IsApplyStepFor(id) =>
              \A t \in PatchTargets(id) : NodeAt(disk', t) = NodeAt(disk, t)]_vars

\* Two applyPatch calls for the same change set, each of which found it
\* pending, and one of which was made while the other was in flight
Overlapping(calls, j, k) ==
  /\ j # k
  /\ calls[j].op = "applyPatch" /\ calls[k].op = "applyPatch"
  /\ calls[j].a.found /\ calls[k].a.found
  /\ calls[j].a.changeSetId = calls[k].a.changeSetId
  /\ (j \in calls[k].during \/ k \in calls[j].during)

\* The step in which the writeFile awaited by the call in slot k renames
\* its temporary file into place
IsPatchWritten(k) ==
  /\ ret'.op \in {"applyPatch", "applyPatchStep"}
  /\ ret'.frame.slot = k
  /\ ret'.frame.awaited.pc = "rename"
  /\ disk' # disk
  /\ NodeAt(disk', ret'.frame.awaited.absPath) = FileNode(ret'.frame.awaited.content)

\* C35: of two overlapping applyPatch calls for the same pending change
\* set at most one returns success, no file patch is written by one call
\* after the other call wrote it, and when the later of the two returns,
\* the status of the change set is applied exactly if that call returned
\* success.
C35_OverlappingAppliesAreSerialised ==
  [][\A j, k \in Slots :
       Overlapping(inflight'.calls, j, k) =>
         /\ (inflight'.calls[j].returned /\ inflight'.calls[k].returned)
              => ~(inflight'.calls[j].a.res.ok /\ inflight'.calls[k].a.res.ok)
         /\ IsPatchWritten(k) =>
              ret'.frame.awaited.relativePath
                \notin {inflight.calls[j].a.appliedFiles[n] :
                           n \in DOMAIN inflight.calls[j].a.appliedFiles}
         /\ (/\ ret'.op = "applyPatch"
             /\ ret'.frame.slot = k
             /\ inflight'.calls[j].returned)
              => (changeSets'[ret'.changeSetId].status = "applied" <=> ret'.res.ok)]_vars

\* C36: every file an applyPatch call writes lies under the root of the
\* workspace that was open when the change set was registered (/w/r),
\* whatever workspace is opened between the registration and the call or
\* while the call is in flight.
C36_PatchesStayUnderRegisteredRoot ==
  [][ret'.op \in {"applyPatch", "applyPatchStep"} =>
       \A t \in DOMAIN disk' :
         (t \notin DOMAIN disk \/ disk'[t] # disk[t]) => StartsWith(t, RootPath)]_vars

(***************************************************************************)
(* Properties of the stored status of change sets (SpecFaults)             *)
(***************************************************************************)
\* The ids a reload of the session would offer as pending
OfferedAsPending(store, sessionId) ==
  {store[x].payload.id :
     x \in {y \in DOMAIN store : store[y].sessionId = sessionId /\ store[y].status = "pending"}}

\* C37: when a registerChangeSet, applyPatch or discardChangeSet call has
\* finished, with or without a failure of the store, every stored change
\* set has the status its object has in memory, and no change set that is
\* applied or discarded in memory would be offered as pending by a reload.
C37_StoredStatusFollowsMemory ==
  [][ret'.op \in {"registerChangeSet", "applyPatch", "discardChangeSet"} =>
       \A id \in DOMAIN changeSets' :
         /\ id \in DOMAIN db' => db'[id].status = changeSets'[id].status
         /\ changeSets'[id].status \in {"applied", "discarded"}
              => id \notin OfferedAsPending(db', changeSets'[id].sessionId)]_vars

(***************************************************************************)
(* Properties of failed and repeated runCommand calls (SpecShell)          *)
(***************************************************************************)
\* The runs stored by the step with the status running
RunsStoredAsRunning ==
  {x \in DOMAIN shell'.commandRuns \ DOMAIN shell.commandRuns :
     shell'.commandRuns[x].payload.status = "running"}

\* C38: a runCommand call that returns a failure (not confirmed, unknown
\* proposal, working directory no longer valid, spawn failure) leaves the
\* decision of every proposal as it was and stores no run with the status
\* running.
C38_FailedRunLeavesNoTrace ==
  [][(ret'.op = "runCommand" /\ ~ret'.res.ok) =>
       /\ \A id \in DOMAIN shell.proposals :
            shell'.proposals[id].proposal.decision = shell.proposals[id].proposal.decision
       /\ RunsStoredAsRunning = {}]_vars

\* C39: while the process that a runCommand call spawned for a proposal
\* is running, no confirmed runCommand call for the same proposal spawns
\* another process.
C39_ProposalRunsAtMostOnce ==
  [][(ret'.op = "runCommand" /\ ret'.res.ok) =>
       \A x \in DOMAIN shell.children :
         ~(/\ shell.children[x].proposalId = ret'.changeSetId
           /\ shell.children[x].state = "running"
           /\ shell'.children[ret'.frame.runId].state = "running")]_vars

(***************************************************************************)
(* aiService: AIService.executeTurn, the async function that startChatTurn *)
(* starts with `void` and does not await.  The turn at position n of       *)
(* chat.turns holds the locals of its executeTurn, the await it is         *)
(* suspended at (pc) and the events it has passed to emitEvent.  pc is     *)
(* "returned" when the function has returned and "rejected" when an        *)
(* exception has left it (the promise is rejected and nobody observes it). *)
(* T is the state a step reads and writes: T.chat, T.shell and T.S.        *)
(***************************************************************************)
ChatEvent(type, turnId, detail) == [type |-> type, turnId |-> turnId, detail |-> detail]

\* emitEvent(event), for the turn at position n
emitEvent(T, n, type, detail) ==
  [T EXCEPT !.chat.turns[n].events =
              Append(@, ChatEvent(type, T.chat.turns[n].turnId, detail))]

\* database.saveMessage(message): the row, and last_session_id
saveMessage(ch, message) ==
  [ch EXCEPT !.messages = Append(@, message), !.lastSessionId = message.sessionId]

\* What the model answers: text that is no JSON, or a JSON object
Replies ==
  {[json |-> FALSE, text |-> "hello", assistant_message |-> "",
    file_patches |-> <<>>, commands |-> <<>>],
   [json |-> TRUE, text |-> "{}", assistant_message |-> "",
    file_patches |-> <<>>, commands |-> <<>>],
   [json |-> TRUE, text |-> "{...}", assistant_message |-> "msg",
    file_patches |-> <<[path |-> <<"a">>, new_content |-> "n1", expected_sha256 |-> NoSha],
                       [path |-> <<>>, new_content |-> "n2", expected_sha256 |-> NoSha]>>,
    commands |-> <<[command |-> "cmd", cwd |-> <<>>],
                   [command |-> "", cwd |-> <<".">>]>>]}

NoParsed == [assistantMessage |-> "", filePatches |-> <<>>, commands |-> <<>>]

HasPath(item) == item.path # <<>>
HasCommand(item) == item.command # ""

\* parseAssistantPayload(rawText)
parseAssistantPayload(reply) ==
  IF ~reply.json
    THEN [assistantMessage |-> reply.text, filePatches |-> <<>>, commands |-> <<>>]
    ELSE [assistantMessage |->
            IF reply.assistant_message # "" THEN reply.assistant_message ELSE reply.text,
          filePatches |-> SelectSeq(reply.file_patches, HasPath),
          commands |->
            SelectSeq([k \in 1..Len(reply.commands) |->
                         [command |-> reply.commands[k].command,
                          cwd |-> IF reply.commands[k].cwd # <<>>
                                    THEN reply.commands[k].cwd ELSE <<".">>]],
                      HasCommand)]

\* The input of the turns of the model
TurnInput == [sessionId |-> "s1", prompt |-> "p", activeFilePath |-> <<"a">>,
              selectedFilePaths |-> <<>>, maxContextFiles |-> 0]

\* Tokens a stream delivers at most
MaxTokens == 1

\* executeTurn from its call to the first await: the user's message is
\* saved outside any try block
executeTurnStart(T, turnId, messageId, now, input, dbFails) ==
  LET turn == [turnId |-> turnId, input |-> input, pc |-> "getOpenAIKey",
               events |-> <<>>, tokens |-> 0, key |-> <<>>, parsed |-> NoParsed, i |-> 1,
               patchCandidates |-> <<>>, commandProposals |-> <<>>]
      userMessage == [id |-> messageId, sessionId |-> input.sessionId, role |-> "user",
                      content |-> input.prompt, createdAt |-> now]
  IN  IF dbFails
        THEN [T EXCEPT !.chat.turns = Append(@, [turn EXCEPT !.pc = "rejected"])]
        ELSE [T EXCEPT !.chat = [saveMessage(T.chat, userMessage) EXCEPT
                                   !.turns = Append(@, turn)]]

\* emitEvent({ type: 'error' ... }); emitEvent({ type: 'done', turnId }); return
errorAndDone(T, n, code) ==
  [emitEvent(emitEvent(T, n, "error", code), n, "done", "")
     EXCEPT !.chat.turns[n].pc = "returned"]

\* getOpenAIKey()
getOpenAIKey(ch, keychainFails) ==
  IF keychainFails THEN Err("INTERNAL_ERROR", "KEYCHAIN_ERROR", <<>>)
  ELSE IF ch.openAIKey = <<>> THEN Err("OPENAI_KEY_MISSING", "", <<>>)
  ELSE Ok(ch.openAIKey)

\* const keyResult = await getOpenAIKey(), on to await readFilesForContext
executeTurnAfterKey(T, n, keychainFails, dbFails) ==
  LET keyResult == getOpenAIKey(T.chat, keychainFails)
  IN  IF ~keyResult.ok THEN errorAndDone(T, n, keyResult.code)
      ELSE IF dbFails THEN [T EXCEPT !.chat.turns[n].pc = "rejected"]
      ELSE [T EXCEPT !.chat.turns[n].pc = "readFilesForContext",
                     !.chat.turns[n].key = keyResult.value]

\* await readFilesForContext(contextPaths): the files go into the prompt
executeTurnAfterContext(T, n) ==
  [T EXCEPT !.chat.turns[n].pc = "fetch"]

\* How the request ends: fetch rejects, or the response is not ok, or it
\* is ok and has a body
FetchOutcomes == {"rejects", "notOk", "ok"}

\* const response = await fetch(...)
executeTurnAfterFetch(T, n, outcome) ==
  IF outcome = "rejects" THEN errorAndDone(T, n, "OPENAI_REQUEST_FAILED")
  ELSE IF outcome = "notOk" THEN [T EXCEPT !.chat.turns[n].pc = "responseText"]
  ELSE [T EXCEPT !.chat.turns[n].pc = "read"]

\* const details = await response.text(): the error event of the branch, or
\* the one of the catch block when text() rejects, and done
executeTurnAfterText(T, n) ==
  errorAndDone(T, n, "OPENAI_REQUEST_FAILED")

RECURSIVE proposeCommands(_, _, _, _, _, _)
\* for (const proposedCommand of parsed.commands) { ... }
proposeCommands(T, n, fs, ws, now, k) ==
  LET turn == T.chat.turns[n]
  IN  IF k > Len(turn.parsed.commands) THEN T
      ELSE LET proposedCommand == turn.parsed.commands[k]
               id == ProposalIdAt(Cardinality(DOMAIN T.shell.proposals) + 1)
               r == requestCommand(T.shell, fs, ws, id, now, turn.input.sessionId,
                                   proposedCommand.command, proposedCommand.cwd)
           IN  IF ~r.res.ok THEN proposeCommands(T, n, fs, ws, now, k + 1)
               ELSE proposeCommands(
                      emitEvent([T EXCEPT !.shell = r.sh,
                                          !.chat.turns[n].commandProposals =
                                             Append(@, r.res.value)],
                                n, "proposed_command", ""),
                      n, fs, ws, now, k + 1)

\* The n-th uuid drawn for a change set
ChangeSetIdAt(n) == <<"c1", "c2", "c3", "c4">>[n]

\* After the loop over parsed.filePatches: the change set is registered, and
\* done is emitted
executeTurnFinish(T, n, now, dbFails) ==
  The({[emitEvent(T1, n, "done", "") EXCEPT !.chat.turns[n].pc = "returned"] :
       T1 \in {IF T.chat.turns[n].patchCandidates = <<>> THEN T
               ELSE The({IF registerResult.res.ok
                           THEN emitEvent([T EXCEPT !.S = registerResult.S], n,
                                          "proposed_patch", registerResult.res.value.id)
                           ELSE emitEvent([T EXCEPT !.S = registerResult.S], n, "error",
                                          registerResult.res.code) :
                         registerResult \in
                           {registerChangeSet(
                              T.S,
                              CodeChangeSet(
                                ChangeSetIdAt(Cardinality(DOMAIN T.S.changeSets
                                                            \cup DOMAIN T.S.db) + 1),
                                T.chat.turns[n].input.sessionId, now,
                                T.chat.turns[n].patchCandidates),
                              dbFails)}})}})

\* The head of the loop over parsed.filePatches: the next await, or the end
executeTurnToReadFile(T, n, now, dbFails) ==
  IF T.chat.turns[n].i > Len(T.chat.turns[n].parsed.filePatches)
    THEN executeTurnFinish(T, n, now, dbFails)
    ELSE [T EXCEPT !.chat.turns[n].pc = "readFile"]

\* reader.read() gave done: the reply is parsed, the assistant's message is
\* saved and emitted, the commands are proposed
executeTurnAfterStream(T, n, fs, ws, messageId, now, reply, dbFails) ==
  LET parsed == parseAssistantPayload(reply)
      assistantMessage ==
        [id |-> messageId, sessionId |-> T.chat.turns[n].input.sessionId,
         role |-> "assistant",
         content |-> IF parsed.assistantMessage # "" THEN parsed.assistantMessage ELSE "Done.",
         createdAt |-> now]
  IN  IF dbFails THEN errorAndDone(T, n, "OPENAI_REQUEST_FAILED")
      ELSE executeTurnToReadFile(
             proposeCommands(
               emitEvent([T EXCEPT !.chat = saveMessage(T.chat, assistantMessage),
                                   !.chat.turns[n].parsed = parsed],
                         n, "assistant_message", messageId),
               n, fs, ws, now, 1),
             n, now, FALSE)

\* What reader.read() gives: a chunk with a text delta, the end of the
\* stream, or a rejection
ReadOutcomes == {"delta", "done", "rejects"}

\* const { value, done } = await reader.read()
executeTurnAfterRead(T, n, fs, ws, messageId, now, outcome, reply, dbFails) ==
  IF outcome = "rejects" THEN errorAndDone(T, n, "OPENAI_REQUEST_FAILED")
  ELSE IF outcome = "delta"
    THEN [emitEvent(T, n, "token", "") EXCEPT !.chat.turns[n].tokens = @ + 1]
  ELSE executeTurnAfterStream(T, n, fs, ws, messageId, now, reply, dbFails)

\* The FilePatch pushed for a candidate: the fingerprint of the reply, or
\* else the one of the file read
PatchCandidate(candidate, existing) ==
  [path |-> candidate.path, newContent |-> candidate.new_content,
   expectedSha256 |->
     IF candidate.expected_sha256 # NoSha THEN candidate.expected_sha256
     ELSE IF existing.ok THEN existing.value.sha256 ELSE NoSha]

\* const existing = await this.workspaceService.readFile(candidate.path)
executeTurnAfterReadFile(T, n, fs, ws, now, dbFails) ==
  The({executeTurnToReadFile(T1, n, now, dbFails) :
       T1 \in {[T EXCEPT !.chat.turns[n].patchCandidates = Append(@, patch),
                         !.chat.turns[n].i = @ + 1] :
               patch \in {PatchCandidate(
                            T.chat.turns[n].parsed.filePatches[T.chat.turns[n].i],
                            readFile(fs, ws,
                                     T.chat.turns[n].parsed.filePatches[
                                       T.chat.turns[n].i].path))}}})

(***************************************************************************)
(* SpecTurn: chat turns.  The keychain holds a key or none; turns are      *)
(* started while a workspace is open or not, and the awaits of their       *)
(* executeTurn complete in any order: the key is read, the request is      *)
(* answered, refused or lost, the stream delivers tokens and ends or       *)
(* breaks, and the store fails in the steps whose dbFails is TRUE.         *)
(* SpecTurnFair adds that every await of a turn completes.                 *)
(***************************************************************************)
InitTurn ==
  /\ disk = FilesDisk
  /\ workspace = NoWorkspace
  /\ clock = 0
  /\ changeSets = EmptyTable
  /\ pendingById = {}
  /\ db = EmptyTable
  /\ proposed = <<>>
  /\ writes = 0
  /\ ret = Ret("none", "", <<>>, Ok(<<>>), NoFrame)
  /\ inflight = NoInflight
  /\ shell = NoShell
  /\ query = NoQuery
  /\ \E key \in {<<>>, <<"k">>} : chat = [NoChat EXCEPT !.openAIKey = key]

TurnWorld == [chat |-> chat, shell |-> shell, S |-> World]

SetTurnWorld(T) ==
  /\ chat' = T.chat
  /\ shell' = T.shell
  /\ SetWorld(T.S)

TurnRet(op, n, T) ==
  Ret(op, "", <<>>, Ok(<<>>), [pc |-> T.chat.turns[n].pc, turn |-> n])

\* ipc startChatTurn -> AIService.startChatTurn
StartChatTurn(dbFails) ==
  /\ Len(chat.turns) < MaxTurns
  /\ \E n \in {Len(chat.turns) + 1} :
       \E T \in {executeTurnStart(TurnWorld, TurnIdAt(n),
                                  MessageIdAt(Len(chat.messages) + 1), clock, TurnInput,
                                  dbFails)} :
          /\ SetTurnWorld(T)
          /\ ret' = Ret("startChatTurn", "", <<>>, Ok([turnId |-> TurnIdAt(n)]),
                        [pc |-> T.chat.turns[n].pc, turn |-> n])
  /\ UNCHANGED <<workspace, clock, proposed, writes, inflight, query>>

\* The await of getOpenAIKey of turn n completes
TurnKey(n, keychainFails, dbFails) ==
  /\ n \in DOMAIN chat.turns
  /\ chat.turns[n].pc = "getOpenAIKey"
  /\ \E T \in {executeTurnAfterKey(TurnWorld, n, keychainFails, dbFails)} :
       SetTurnWorld(T) /\ ret' = TurnRet("executeTurn", n, T)
  /\ UNCHANGED <<workspace, clock, proposed, writes, inflight, query>>

\* The await of readFilesForContext of turn n completes
TurnContext(n) ==
  /\ n \in DOMAIN chat.turns
  /\ chat.turns[n].pc = "readFilesForContext"
  /\ \E T \in {executeTurnAfterContext(TurnWorld, n)} :
       SetTurnWorld(T) /\ ret' = TurnRet("executeTurn", n, T)
  /\ UNCHANGED <<workspace, clock, proposed, writes, inflight, query>>

\* The await of fetch of turn n completes
TurnFetch(n, outcome) ==
  /\ n \in DOMAIN chat.turns
  /\ chat.turns[n].pc = "fetch"
  /\ \E T \in {executeTurnAfterFetch(TurnWorld, n, outcome)} :
       SetTurnWorld(T) /\ ret' = TurnRet("executeTurn", n, T)
  /\ UNCHANGED <<workspace, clock, proposed, writes, inflight, query>>

\* The await of response.text() of turn n completes
TurnText(n) ==
  /\ n \in DOMAIN chat.turns
  /\ chat.turns[n].pc = "responseText"
  /\ \E T \in {executeTurnAfterText(TurnWorld, n)} :
       SetTurnWorld(T) /\ ret' = TurnRet("executeTurn", n, T)
  /\ UNCHANGED <<workspace, clock, proposed, writes, inflight, query>>

\* An await of reader.read() of turn n completes
TurnRead(n, outcome, reply, dbFails) ==
  /\ n \in DOMAIN chat.turns
  /\ chat.turns[n].pc = "read"
  /\ outcome = "delta" => chat.turns[n].tokens < MaxTokens
  /\ \E T \in {executeTurnAfterRead(TurnWorld, n, disk, workspace,
                                    MessageIdAt(Len(chat.messages) + 1), clock,
                                    outcome, reply, dbFails)} :
       SetTurnWorld(T) /\ ret' = TurnRet("executeTurn", n, T)
  /\ UNCHANGED <<workspace, clock, proposed, writes, inflight, query>>

\* An await of workspaceService.readFile of turn n completes
TurnReadFile(n, dbFails) ==
  /\ n \in DOMAIN chat.turns
  /\ chat.turns[n].pc = "readFile"
  /\ \E T \in {executeTurnAfterReadFile(TurnWorld, n, disk, workspace, clock, dbFails)} :
       SetTurnWorld(T) /\ ret' = TurnRet("executeTurn", n, T)
  /\ UNCHANGED <<workspace, clock, proposed, writes, inflight, query>>

\* An await of the key store, of the context files or of the network
\* completes in turn n
TurnAwaited(n) ==
  \/ \E k, f \in BOOLEAN : TurnKey(n, k, f)
  \/ TurnContext(n)
  \/ \E o \in FetchOutcomes : TurnFetch(n, o)
  \/ TurnText(n)
  \/ \E o \in ReadOutcomes, reply \in Replies, f \in BOOLEAN : TurnRead(n, o, reply, f)

\* An await of a file read completes in turn n
TurnFileRead(n) == \E f \in BOOLEAN : TurnReadFile(n, f)

NextTurn ==
  \/ OpenWorkspace(RootPath)
  \/ \E f \in BOOLEAN : StartChatTurn(f)
  \/ \E n \in 1..MaxTurns : TurnAwaited(n)
  \/ \E n \in 1..MaxTurns : TurnFileRead(n)

SpecTurn == InitTurn /\ [][NextTurn]_vars

\* Turn n is suspended at the await of a file read
AtFileRead(n) == n \in DOMAIN chat.turns /\ chat.turns[n].pc = "readFile"

\* Every promise that executeTurn awaits is settled in the end: the key
\* store, the file system and fetch resolve or reject, and a stream ends or
\* breaks.  For the file reads this is WF_vars(TurnFileRead(n)) with
\* AtFileRead(n) in the place of ENABLED <<TurnFileRead(n)>>_vars, which it
\* equals: the step has no other guard and always moves the loop on.
SpecTurnFair ==
  /\ SpecTurn
  /\ \A n \in 1..MaxTurns : WF_vars(TurnAwaited(n))
  /\ \A n \in 1..MaxTurns : []<>(~AtFileRead(n)) \/ []<><<TurnFileRead(n)>>_vars

(***************************************************************************)
(* Properties of the events of a chat turn (SpecTurnFair)                  *)
(***************************************************************************)
\* The done events among the events of the turn at position n
DoneEvents(n) ==
  {k \in DOMAIN chat.turns[n].events : chat.turns[n].events[k].type = "done"}

\* C40: every chat turn that startChatTurn has started emits one done
\* event in the end, never more than one, and no event after it.
C40_EveryTurnEndsWithOneDone ==
  \A n \in 1..MaxTurns :
    /\ [](n \in DOMAIN chat.turns =>
            \/ DoneEvents(n) = {}
            \/ DoneEvents(n) = {Len(chat.turns[n].events)})
    /\ (n \in DOMAIN chat.turns) ~> (n \in DOMAIN chat.turns /\ DoneEvents(n) # {})
====
